---- MODULE Spec2Model ----
(***************************************************************************)
(* The dashboard aggregation route GET /api/dashboard                      *)
(* (src/src/app/api/dashboard/route.ts, lines 322-761) as a state machine. *)
(*                                                                         *)
(* Instants are whole hours since 1970-01-01T00:00Z (the code works in     *)
(* milliseconds; every comparison it makes is kept, at hour resolution).   *)
(* Decimal and floating quantities that the code divides are exact         *)
(* rationals [num, den] compared by cross-multiplication.  Strings that    *)
(* the code builds and sorts are sequences of character codes.             *)
(***************************************************************************)
EXTENDS Integers, Sequences, FiniteSets, TLC

(***************************************************************************)
(* Program constants.                                                      *)
(***************************************************************************)
HoursPerDay == 24
DaysPerYear == 365
RecentWindowDays == 30
WeeklyWindowDays == 90
MonthlyWindowDays == 365
TopLoanTypes == 3
RecentLimit == 10
RetryLimit == 1

(***************************************************************************)
(* Bounds of the model.                                                    *)
(***************************************************************************)
MaxListings == 3
MaxMortgages == 2
MaxRows == 1
MaxDated == 2
MaxPriced == 3
MaxSeries == 2
MaxLoans == 5
MaxStore == 2
MaxStatusRows == 4
MaxFrequencyRows == 2
MaxRecentStore == 12
RecentSpan == 11
MaxSkewStore == 3

Null == <<>>
Some(v) == <<v>>

(***************************************************************************)
(* Small helpers.                                                          *)
(***************************************************************************)
Max(a, b) == IF a >= b THEN a ELSE b

RECURSIVE SumSeq(_)
SumSeq(s) == IF s = <<>> THEN 0 ELSE Head(s) + SumSeq(Tail(s))

RECURSIVE MapCount(_, _)
\* number of positions of s whose element is in the set S
MapCount(s, S) == IF s = <<>> THEN 0
                  ELSE (IF Head(s) \in S THEN 1 ELSE 0) + MapCount(Tail(s), S)

Range(s) == {s[i] : i \in DOMAIN s}

RECURSIVE SetToSortedSeq(_)
SetToSortedSeq(S) ==
  IF S = {} THEN <<>>
  ELSE LET m == CHOOSE x \in S : \A y \in S : x <= y
       IN <<m>> \o SetToSortedSeq(S \ {m})

\* Math.floor(a / b) for b > 0
FloorDiv(a, b) == a \div b

\* Math.floor((later.getTime() - earlier.getTime()) / (1000 * 60 * 60 * 24))
WholeDays(earlier, later) == FloorDiv(later - earlier, HoursPerDay)

(***************************************************************************)
(* Date: the calendar of the JavaScript Date object.                       *)
(***************************************************************************)
\* Proleptic Gregorian date of a day number (days since 1970-01-01).
CivilFromDays(days) ==
  LET z   == days + 719468
      era == z \div 146097
      doe == z - era * 146097
      yoe == (doe - doe \div 1460 + doe \div 36524 - doe \div 146096) \div 365
      doy == doe - (365 * yoe + yoe \div 4 - yoe \div 100)
      mp  == (5 * doy + 2) \div 153
      d   == doy - (153 * mp + 2) \div 5 + 1
      m   == IF mp < 10 THEN mp + 3 ELSE mp - 9
      y   == yoe + era * 400 + (IF m <= 2 THEN 1 ELSE 0)
  IN [year |-> y, month |-> m, day |-> d]

\* Day number of the calendar day holding instant t, in the zone with offset tz hours.
LocalDayNumber(t, tz) == FloorDiv(t + tz, HoursPerDay)

\* date.getDay(): 0 = Sunday ... 6 = Saturday, in the server's zone
getDay(t, tz) == (LocalDayNumber(t, tz) + 4) % 7

\* date.getFullYear(), date.getMonth() (0-based), in the server's zone
getFullYear(t, tz) == CivilFromDays(LocalDayNumber(t, tz)).year
getMonth(t, tz) == CivilFromDays(LocalDayNumber(t, tz)).month - 1

\* date.setDate(date.getDate() - n): n local calendar days earlier, same local
\* time of day (the offset is fixed: the zone has no daylight-saving shift)
setDateBack(t, n) == t - n * HoursPerDay

(***************************************************************************)
(* Strings as sequences of character codes.                                *)
(***************************************************************************)
Hyphen == <<45>>

RECURSIVE Digits(_)
\* String(n) for a natural number n
Digits(n) == IF n < 10 THEN <<48 + n>> ELSE Digits(n \div 10) \o <<48 + (n % 10)>>

RECURSIVE padStart(_, _, _)
\* s.padStart(len, ch)
padStart(s, len, ch) == IF Len(s) >= len THEN s ELSE padStart(<<ch>> \o s, len, ch)

\* date.toISOString().split('T')[0]: the UTC calendar date, YYYY-MM-DD
toISODate(t) ==
  LET c == CivilFromDays(FloorDiv(t, HoursPerDay))
  IN padStart(Digits(c.year), 4, 48) \o Hyphen \o padStart(Digits(c.month), 2, 48)
       \o Hyphen \o padStart(Digits(c.day), 2, 48)

RECURSIVE localeCompare(_, _)
\* a.localeCompare(b) on strings of digits and hyphens: -1, 0 or 1
localeCompare(a, b) ==
  IF a = <<>> /\ b = <<>> THEN 0
  ELSE IF a = <<>> THEN -1
  ELSE IF b = <<>> THEN 1
  ELSE IF Head(a) < Head(b) THEN -1
  ELSE IF Head(a) > Head(b) THEN 1
  ELSE localeCompare(Tail(a), Tail(b))

(***************************************************************************)
(* Numbers: exact rationals, and the results of Math.round.                *)
(***************************************************************************)
RECURSIVE Gcd(_, _)
Gcd(a, b) == IF b = 0 THEN a ELSE Gcd(b, a % b)

Abs(a) == IF a < 0 THEN 0 - a ELSE a

\* num / den with den > 0, in lowest terms
Ratio(num, den) ==
  LET g == Gcd(Abs(num), den)
  IN [num |-> num \div g, den |-> den \div g]

RAdd(a, b) == Ratio(a.num * b.den + b.num * a.den, a.den * b.den)

\* a <= k and a >= b, for rationals a, b and an integer k
RLeInt(a, k) == a.num <= k * a.den
RGe(a, b) == a.num * b.den >= b.num * a.den

RECURSIVE RSum(_)
RSum(s) == IF s = <<>> THEN Ratio(0, 1) ELSE RAdd(Head(s), RSum(Tail(s)))

NaN == [isNaN |-> TRUE, value |-> 0]
Num(v) == [isNaN |-> FALSE, value |-> v]

\* Math.round(num / den): the nearest integer, halves upwards; 0 / 0 is NaN
MathRound(num, den) ==
  IF den = 0 THEN NaN ELSE Num(FloorDiv(2 * num + den, 2 * den))

(***************************************************************************)
(* The store: the tables listing and assumableMortgage, and the answers    *)
(* of the queries the handler sends.  A listing row is                     *)
(*   [status, price, createdAt, lastStatusChange, updatedAt,               *)
(*    denormalizedAssumableLoanType]                                       *)
(* with the two nullable columns Null or Some(value); a mortgage row is    *)
(*   [currentBalance, interestRate, createdAt, remainingTerm].             *)
(* Rows without an ordering in the query come back in table order.         *)
(***************************************************************************)
ACTIVE == "ACTIVE"

IsActive(l) == l.status = ACTIVE

\* prisma.listing.count({ where: { status: ACTIVE } })
CountActive(ls) == Len(SelectSeq(ls, IsActive))

\* prisma.listing.aggregate({ where: { status: ACTIVE }, _avg: { price: true } })
AvgActivePrice(ls) ==
  LET act == SelectSeq(ls, IsActive)
  IN IF act = <<>> THEN Null
     ELSE Some(Ratio(SumSeq([i \in DOMAIN act |-> act[i].price]), Len(act)))

\* thirtyDaysAgo: new Date(), then setDate(getDate() - 30)
thirtyDaysAgo(t) == setDateBack(t, RecentWindowDays)

\* CountRecentActive over the listings of every status
CountRecentAll(ls, t) ==
  LET Recent(l) == l.createdAt >= thirtyDaysAgo(t)
  IN Len(SelectSeq(ls, Recent))

\* prisma.listing.count({ where: { createdAt: { gte: thirtyDaysAgo }, status: ACTIVE } })
CountRecentActive(ls, t) ==
  LET Recent(l) == IsActive(l) /\ l.createdAt >= thirtyDaysAgo(t)
  IN Len(SelectSeq(ls, Recent))

\* prisma.assumableMortgage.findMany({ select: ... })
FindMortgages(ms) == ms

\* prisma.listing.findMany({ where: { status: ACTIVE }, select: ... })
FindActiveListings(ls) ==
  LET act == SelectSeq(ls, IsActive)
  IN [i \in DOMAIN act |->
        [createdAt |-> act[i].createdAt,
         lastStatusChange |-> act[i].lastStatusChange,
         updatedAt |-> act[i].updatedAt,
         denormalizedAssumableLoanType |-> act[i].denormalizedAssumableLoanType]]

RECURSIVE Distinct(_)
\* the distinct elements of s, in the order of their first occurrence
Distinct(s) ==
  IF s = <<>> THEN <<>>
  ELSE LET rest == Distinct(SubSeq(s, 1, Len(s) - 1))
           x == s[Len(s)]
       IN IF x \in Range(rest) THEN rest ELSE Append(rest, x)

RECURSIVE InsertAsc(_, _)
\* InsertDesc for orderBy: { _count: 'asc' }
InsertAsc(g, sorted) ==
  IF sorted = <<>> THEN <<g>>
  ELSE IF Head(sorted)._count <= g._count
       THEN <<Head(sorted)>> \o InsertAsc(g, Tail(sorted))
       ELSE <<g>> \o sorted

RECURSIVE InsertDesc(_, _)
\* g put into the sequence of groups by descending _count, after its equals
InsertDesc(g, sorted) ==
  IF sorted = <<>> THEN <<g>>
  ELSE IF Head(sorted)._count >= g._count
       THEN <<Head(sorted)>> \o InsertDesc(g, Tail(sorted))
       ELSE <<g>> \o sorted

RECURSIVE SortDesc(_)
SortDesc(s) ==
  IF s = <<>> THEN <<>>
  ELSE InsertDesc(s[Len(s)], SortDesc(SubSeq(s, 1, Len(s) - 1)))

Take(s, n) == SubSeq(s, 1, IF Len(s) < n THEN Len(s) ELSE n)

\* prisma.listing.groupBy({ by: ['denormalizedAssumableLoanType'],
\*   where: { status: ACTIVE, denormalizedAssumableLoanType: { not: null } },
\*   _count: ..., orderBy: { _count: 'desc' }, take: 3 })
GroupByLoanType(ls) ==
  LET Typed(l) == IsActive(l) /\ l.denormalizedAssumableLoanType # Null
      rows == SelectSeq(ls, Typed)
      types == [i \in DOMAIN rows |-> rows[i].denormalizedAssumableLoanType]
      keys == Distinct(types)
      groups == [i \in DOMAIN keys |->
                   [denormalizedAssumableLoanType |-> keys[i],
                    _count |-> MapCount(types, {keys[i]})]]
  IN Take(SortDesc(groups), TopLoanTypes)

\* GroupByStatus with the where clause of the other queries, status ACTIVE
GroupByStatusActive(ls) ==
  LET act == SelectSeq(ls, IsActive)
      st == [i \in DOMAIN act |-> act[i].status]
      keys == Distinct(st)
  IN [i \in DOMAIN keys |-> [status |-> keys[i], _count |-> MapCount(st, {keys[i]})]]

\* prisma.listing.groupBy({ by: ['status'], _count: true })
GroupByStatus(ls) ==
  LET st == [i \in DOMAIN ls |-> ls[i].status]
      keys == Distinct(st)
  IN [i \in DOMAIN keys |-> [status |-> keys[i], _count |-> MapCount(st, {keys[i]})]]

\* priceRanges
priceRanges ==
  << [min |-> 0,       max |-> Some(250000),  label |-> "0-250k"],
     [min |-> 250000,  max |-> Some(500000),  label |-> "250k-500k"],
     [min |-> 500000,  max |-> Some(750000),  label |-> "500k-750k"],
     [min |-> 750000,  max |-> Some(1000000), label |-> "750k-1M"],
     [min |-> 1000000, max |-> Null,          label |-> "1M+" ] >>

\* PriceInRange with lte in place of lt
PriceInRangeLte(price, range) ==
  /\ price >= range.min
  /\ (range.max # Null /\ range.max[1] # 0) => price <= range.max[1]

\* the where clause  price: { gte: range.min, ...(range.max ? { lt: range.max } : {}) }
PriceInRange(price, range) ==
  /\ price >= range.min
  /\ (range.max # Null /\ range.max[1] # 0) => price < range.max[1]

\* CountPriceRange over the listings of every status
CountPriceRangeAll(ls, range) ==
  LET In(l) == PriceInRange(l.price, range)
  IN Len(SelectSeq(ls, In))

\* prisma.listing.count({ where: { status: ACTIVE, price: {...} } })
CountPriceRange(ls, range) ==
  LET In(l) == IsActive(l) /\ PriceInRange(l.price, range)
  IN Len(SelectSeq(ls, In))

\* GroupByCreatedAt over the active listings only
GroupByCreatedAtActive(ls, since) ==
  LET act == SelectSeq(ls, IsActive)
      created == [i \in DOMAIN act |-> act[i].createdAt]
      keys == SetToSortedSeq({c \in Range(created) : c >= since})
  IN [i \in DOMAIN keys |->
        [createdAt |-> keys[i], _count |-> MapCount(created, {keys[i]})]]

\* prisma.listing.groupBy({ by: ['createdAt'], where: { createdAt: { gte: since } },
\*   _count: true, orderBy: { createdAt: 'asc' } })
GroupByCreatedAt(ls, since) ==
  LET created == [i \in DOMAIN ls |-> ls[i].createdAt]
      keys == SetToSortedSeq({c \in Range(created) : c >= since})
  IN [i \in DOMAIN keys |-> [createdAt |-> keys[i], _count |-> MapCount(created, {keys[i]})]]

\* new Date(Date.now() - days * 24 * 60 * 60 * 1000)
DaysAgo(t, days) == t - days * HoursPerDay

(***************************************************************************)
(* The handler's own computations.                                         *)
(***************************************************************************)
\* daysOnMarket without the Math.max(0, ...) around the difference
daysOnMarketUnclamped(listing, t) ==
  LET startDate == listing.createdAt
      endDate0 == IF listing.lastStatusChange # Null
                  THEN listing.lastStatusChange[1] ELSE t
      endDate == IF endDate0 < startDate THEN t ELSE endDate0
  IN WholeDays(startDate, endDate)

\* daysOnMarket measuring up to the later of the status change and now
daysOnMarketLaterOfNow(listing, t) ==
  LET startDate == listing.createdAt
      endDate0 == IF listing.lastStatusChange # Null
                  THEN Max(listing.lastStatusChange[1], t) ELSE t
      endDate == IF endDate0 < startDate THEN t ELSE endDate0
  IN Max(0, WholeDays(startDate, endDate))

\* the mapper of daysOnMarketList
daysOnMarket(listing, t) ==
  LET startDate == listing.createdAt
      \* listing.lastStatusChange || now
      endDate0 == IF listing.lastStatusChange # Null
                  THEN listing.lastStatusChange[1] ELSE t
      \* if (endDate < startDate) endDate = now
      endDate == IF endDate0 < startDate THEN t ELSE endDate0
  IN Max(0, WholeDays(startDate, endDate))

\* activeListings.map(listing => ...) giving daysOnMarketList
daysOnMarketListOf(activeListings, t) ==
  [i \in DOMAIN activeListings |-> daysOnMarket(activeListings[i], t)]

\* averageOfDays with 0 substituted for an empty list
averageOfDaysOrZero(list) ==
  IF list = <<>> THEN Num(0) ELSE MathRound(SumSeq(list), Len(list))

\* Math.round(daysOnMarketList.reduce(...) / daysOnMarketList.length)
averageOfDays(list) == MathRound(SumSeq(list), Len(list))

\* updateFrequencyOf with createdAt and updatedAt exchanged
updateFrequencySwapped(listing, t) ==
  LET daysActive == Max(1, WholeDays(listing.updatedAt, t))
      updates == WholeDays(listing.createdAt, t)
  IN Ratio(updates, daysActive)

\* the mapper of updateFrequencies: updates / daysActive
updateFrequencyOf(listing, t) ==
  LET daysActive == Max(1, WholeDays(listing.createdAt, t))
      updates == WholeDays(listing.updatedAt, t)
  IN Ratio(updates, daysActive)

\* activeListings.map(listing => ...) giving updateFrequencies
updateFrequenciesOf(activeListings, t) ==
  [i \in DOMAIN activeListings |-> updateFrequencyOf(activeListings[i], t)]

\* Math.round(updateFrequencies.reduce(...) / updateFrequencies.length)
averageOfFrequencies(list) ==
  LET total == RSum(list)
  IN IF list = <<>> THEN NaN ELSE MathRound(total.num, total.den * Len(list))

\* age = (now - mortgage.createdAt) / (1000 * 60 * 60 * 24 * 365), in years
mortgageAge(mortgage, t) == Ratio(t - mortgage.createdAt, HoursPerDay * DaysPerYear)

ageLabels == <<"0-5 years", "5-10 years", "10-15 years", "15-20 years", "20+ years">>

\* categorizeAge with no bucket for a mortgage created after now
categorizeAgeFromZero(age) ==
  IF age.num < 0 THEN "none"
  ELSE IF RLeInt(age, 5) THEN "0-5 years"
  ELSE IF RLeInt(age, 10) THEN "5-10 years"
  ELSE IF RLeInt(age, 15) THEN "10-15 years"
  ELSE IF RLeInt(age, 20) THEN "15-20 years"
  ELSE "20+ years"

\* the if-chain over age that increments mortgageAgeDistribution
categorizeAge(age) ==
  IF RLeInt(age, 5) THEN "0-5 years"
  ELSE IF RLeInt(age, 10) THEN "5-10 years"
  ELSE IF RLeInt(age, 15) THEN "10-15 years"
  ELSE IF RLeInt(age, 20) THEN "15-20 years"
  ELSE "20+ years"

balanceLabels == <<"0-100k", "100k-250k", "250k-500k", "500k+">>

\* categorizeBalance with exclusive upper bounds
categorizeBalanceExclusive(balance) ==
  IF balance < 100000 THEN "0-100k"
  ELSE IF balance < 250000 THEN "100k-250k"
  ELSE IF balance < 500000 THEN "250k-500k"
  ELSE "500k+"

categorizeBalance(balance) ==
  IF balance <= 100000 THEN "0-100k"
  ELSE IF balance <= 250000 THEN "100k-250k"
  ELSE IF balance <= 500000 THEN "250k-500k"
  ELSE "500k+"

interestRateLabels == <<"0-3%", "3-4%", "4-5%", "5-6%", "6%+">>

categorizeInterestRate(rate) ==
  IF RLeInt(rate, 3) THEN "0-3%"
  ELSE IF RLeInt(rate, 4) THEN "3-4%"
  ELSE IF RLeInt(rate, 5) THEN "4-5%"
  ELSE IF RLeInt(rate, 6) THEN "5-6%"
  ELSE "6%+"

daysOnMarketLabels == <<"0-30 days", "30-60 days", "60-90 days", "90+ days">>

categorizeDaysOnMarket(days) ==
  IF days <= 30 THEN "0-30 days"
  ELSE IF days <= 60 THEN "30-60 days"
  ELSE IF days <= 90 THEN "60-90 days"
  ELSE "90+ days"

\* the argument of categorizeDaysOnMarket in the loop over activeListings
lifecycleDays(listing, t) == WholeDays(listing.createdAt, t)

updateFrequencyLabels == <<"Daily", "Weekly", "Monthly", "Quarterly">>

\* categorizeUpdateFrequency with exclusive lower thresholds
categorizeUpdateFrequencyStrict(frequency) ==
  IF ~RGe(Ratio(1, 1), frequency) THEN "Daily"
  ELSE IF ~RGe(Ratio(25, 100), frequency) THEN "Weekly"
  ELSE IF ~RGe(Ratio(33, 1000), frequency) THEN "Monthly"
  ELSE "Quarterly"

categorizeUpdateFrequency(frequency) ==
  IF RGe(frequency, Ratio(1, 1)) THEN "Daily"
  ELSE IF RGe(frequency, Ratio(25, 100)) THEN "Weekly"
  ELSE IF RGe(frequency, Ratio(33, 1000)) THEN "Monthly"
  ELSE "Quarterly"

\* Tally keeping only the labels that were counted at least once
TallySparse(labels, cats) ==
  LET Counted(l) == MapCount(cats, {l}) > 0
      kept == SelectSeq(labels, Counted)
  IN [labels |-> kept,
      values |-> [i \in DOMAIN kept |-> MapCount(cats, {kept[i]})]]

\* An object literal of zero counts keyed by labels, one ++ per category of
\* cats, read back with Object.keys and Object.values.
Tally(labels, cats) ==
  [labels |-> labels,
   values |-> [i \in DOMAIN labels |-> MapCount(cats, {labels[i]})]]

\* timeSeriesKey with the month of the monthly key left unpadded
timeSeriesKeyUnpadded(createdAt, interval, tz) ==
  IF interval = "weekly"
  THEN LET day == getDay(createdAt, tz)
           startOfWeek == setDateBack(createdAt, day)
       IN toISODate(startOfWeek)
  ELSE Digits(getFullYear(createdAt, tz)) \o Hyphen
         \o Digits(getMonth(createdAt, tz) + 1)

\* the key of one row in processTimeSeries
timeSeriesKey(createdAt, interval, tz) ==
  IF interval = "weekly"
  THEN LET day == getDay(createdAt, tz)
           startOfWeek == setDateBack(createdAt, day)
       IN toISODate(startOfWeek)
  ELSE Digits(getFullYear(createdAt, tz)) \o Hyphen
         \o padStart(Digits(getMonth(createdAt, tz) + 1), 2, 48)

\* mapAdd that replaces the count of a key already present instead of adding
mapAddOverwrite(groupedData, key, count) ==
  IF \E i \in DOMAIN groupedData : groupedData[i].key = key
  THEN [i \in DOMAIN groupedData |->
          IF groupedData[i].key = key THEN [key |-> key, count |-> count]
          ELSE groupedData[i]]
  ELSE Append(groupedData, [key |-> key, count |-> count])

\* groupedData.set(key, (groupedData.get(key) || 0) + count) on a Map held as
\* the sequence of its entries in insertion order
mapAdd(groupedData, key, count) ==
  IF \E i \in DOMAIN groupedData : groupedData[i].key = key
  THEN [i \in DOMAIN groupedData |->
          IF groupedData[i].key = key
          THEN [key |-> key, count |-> groupedData[i].count + count]
          ELSE groupedData[i]]
  ELSE Append(groupedData, [key |-> key, count |-> count])

RECURSIVE groupTimeSeries(_, _, _)
\* data.forEach(item => ...) of processTimeSeries
groupTimeSeries(data, interval, tz) ==
  IF data = <<>> THEN <<>>
  ELSE LET item == data[Len(data)]
       IN mapAdd(groupTimeSeries(SubSeq(data, 1, Len(data) - 1), interval, tz),
                 timeSeriesKey(item.createdAt, interval, tz), item._count)

RECURSIVE insertEntry(_, _)
insertEntry(e, sorted) ==
  IF sorted = <<>> THEN <<e>>
  ELSE IF localeCompare(Head(sorted).key, e.key) <= 0
       THEN <<Head(sorted)>> \o insertEntry(e, Tail(sorted))
       ELSE <<e>> \o sorted

RECURSIVE sortEntries(_)
\* Array.from(groupedData.entries()).sort((a, b) => a[0].localeCompare(b[0]))
sortEntries(entries) ==
  IF entries = <<>> THEN <<>>
  ELSE insertEntry(entries[Len(entries)],
                   sortEntries(SubSeq(entries, 1, Len(entries) - 1)))

processTimeSeries(data, interval, tz) ==
  IF data = <<>> THEN [dates |-> <<>>, values |-> <<>>]
  ELSE LET sortedEntries == sortEntries(groupTimeSeries(data, interval, tz))
       IN [dates |-> [i \in DOMAIN sortedEntries |-> sortedEntries[i].key],
           values |-> [i \in DOMAIN sortedEntries |-> sortedEntries[i].count]]

(***************************************************************************)
(* State.                                                                  *)
(***************************************************************************)
VARIABLES
  listings,               \* the store's listing table
  mortgages,              \* the store's assumableMortgage table
  now,                    \* the server clock
  tz,                     \* the server's zone: local time = UTC + tz hours
  pc,                     \* where the handler is
  qstate,                 \* each query's promise: idle, pending, fulfilled, rejected
  qresult,                \* the value a fulfilled query resolved with
  daysOnMarketList,       \* the handler's locals of the same names
  averageDaysOnMarket,
  updateFrequencies,
  averageUpdateFrequency,
  response,               \* the HTTP response, once sent
  last,                   \* the store, the clock and the response of the request before
  lreq,                   \* the request in /api/listings or /api/listings/recent
  lpc,                    \* where its handler is
  lcalls,                 \* the calls it has made to the listing service or the store
  lresponse,              \* its HTTP response, once sent
  lbefore,                \* the listing table as it was when the request came in
  modified,               \* a write has changed the store since GET /dashboard began
  useQuery                \* what the dashboard client's useQuery hook holds

vars == <<listings, mortgages, now, tz, pc, qstate, qresult, daysOnMarketList,
          averageDaysOnMarket, updateFrequencies, averageUpdateFrequency, response,
          last, lreq, lpc, lcalls, lresponse, lbefore, modified, useQuery>>

env == <<listings, mortgages, now, tz>>
listingsRoute == <<lreq, lpc, lcalls, lresponse, lbefore>>
locals == <<daysOnMarketList, averageDaysOnMarket, updateFrequencies,
            averageUpdateFrequency>>

(***************************************************************************)
(* The queries of one request, by the await that waits for them.  A Prisma *)
(* query is sent when its promise is first awaited, so the five price      *)
(* counts and the two time-series queries are sent by the last Promise.all.*)
(***************************************************************************)
Step1 == {"totalActive", "avgPrice", "recentMetrics", "assumableMortgages",
          "activeListings"}
Step2 == {"loanDistribution"}
Step3 == {"statusDistribution"}
PriceQueries == <<"price1", "price2", "price3", "price4", "price5">>
Step4 == Range(PriceQueries) \cup {"weekly", "monthly"}
Queries == Step1 \cup Step2 \cup Step3 \cup Step4

Awaited(p) ==
  CASE p = "await1" -> Step1
    [] p = "await2" -> Step2
    [] p = "await3" -> Step3
    [] p = "await4" -> Step4
    [] OTHER -> {}

\* what a store holding the tables ls and ms answers to query q at instant t
AnswerOn(q, ls, ms, t) ==
  CASE q = "totalActive" -> CountActive(ls)
    [] q = "avgPrice" -> AvgActivePrice(ls)
    [] q = "recentMetrics" -> CountRecentActive(ls, t)
    [] q = "assumableMortgages" -> FindMortgages(ms)
    [] q = "activeListings" -> FindActiveListings(ls)
    [] q = "loanDistribution" -> GroupByLoanType(ls)
    [] q = "statusDistribution" -> GroupByStatus(ls)
    [] q = "price1" -> CountPriceRange(ls, priceRanges[1])
    [] q = "price2" -> CountPriceRange(ls, priceRanges[2])
    [] q = "price3" -> CountPriceRange(ls, priceRanges[3])
    [] q = "price4" -> CountPriceRange(ls, priceRanges[4])
    [] q = "price5" -> CountPriceRange(ls, priceRanges[5])
    [] q = "weekly" -> GroupByCreatedAt(ls, DaysAgo(t, WeeklyWindowDays))
    [] q = "monthly" -> GroupByCreatedAt(ls, DaysAgo(t, MonthlyWindowDays))

\* a query answered from the tables as they were at the request before
AnswerFromLast(q) ==
  IF "listings" \in DOMAIN last
  THEN AnswerOn(q, last.listings, last.mortgages, last.now)
  ELSE AnswerOn(q, listings, mortgages, now)

\* what the store answers to query q
Answer(q) == AnswerOn(q, listings, mortgages, now)

\* the value of a promise that has not resolved
Undefined == <<>>

NoResponse == [status |-> 0, body |-> [none |-> TRUE]]

\* Promise.race in place of Promise.all: some promise of the group is fulfilled
AnyFulfilled(group) == \E q \in group : qstate[q] = "fulfilled"

\* Promise.all(group) resolves: every promise of the group is fulfilled
AllFulfilled(group) == \A q \in group : qstate[q] = "fulfilled"

\* Promise.all(group) rejects: some promise of the group is rejected
SomeRejected(group) == \E q \in group : qstate[q] = "rejected"

Send(group) == [q \in Queries |-> IF q \in group THEN "pending" ELSE qstate[q]]

(***************************************************************************)
(* The payload.                                                            *)
(***************************************************************************)
\* the object literal handed to NextResponse.json, from the resolved values res
\* of the queries and the two averages
Assemble(res, avgDaysOnMarket, avgUpdateFrequency) ==
  LET assumableMortgages == res["assumableMortgages"]
      activeListings == res["activeListings"]
      loanDistribution == res["loanDistribution"]
      statusDistribution == res["statusDistribution"]
      avgPrice == res["avgPrice"]
      ages == [i \in DOMAIN assumableMortgages |->
                 categorizeAge(mortgageAge(assumableMortgages[i], now))]
      balances == [i \in DOMAIN assumableMortgages |->
                     categorizeBalance(assumableMortgages[i].currentBalance)]
      rates == [i \in DOMAIN assumableMortgages |->
                  categorizeInterestRate(assumableMortgages[i].interestRate)]
      doms == [i \in DOMAIN activeListings |->
                 categorizeDaysOnMarket(lifecycleDays(activeListings[i], now))]
      freqs == [i \in DOMAIN activeListings |->
                  categorizeUpdateFrequency(updateFrequencyOf(activeListings[i], now))]
  IN [totalListings |-> res["totalActive"],
      metrics |->
        [averagePrice |-> \* avgPrice._avg.price || 0
           IF avgPrice = Null \/ avgPrice[1].num = 0 THEN Ratio(0, 1) ELSE avgPrice[1],
         averageDaysOnMarket |-> avgDaysOnMarket,
         averageUpdateFrequency |-> avgUpdateFrequency,
         totalNewListingsLast30Days |-> res["recentMetrics"]],
      assumableListings |->
        [labels |-> [i \in DOMAIN loanDistribution |->
                       \* d.denormalizedAssumableLoanType || 'Unknown'
                       LET t == loanDistribution[i].denormalizedAssumableLoanType
                       IN IF t = Null \/ t[1] = "" THEN "Unknown" ELSE t[1]],
         values |-> [i \in DOMAIN loanDistribution |-> loanDistribution[i]._count]],
      priceDistribution |->
        [labels |-> [i \in DOMAIN priceRanges |-> priceRanges[i].label],
         values |-> [i \in DOMAIN PriceQueries |-> res[PriceQueries[i]]]],
      listingTrends |->
        [weekly |-> processTimeSeries(res["weekly"], "weekly", tz),
         monthly |-> processTimeSeries(res["monthly"], "monthly", tz)],
      mortgageAnalytics |->
        [ageDistribution |-> Tally(ageLabels, ages),
         balanceDistribution |-> Tally(balanceLabels, balances),
         interestRateDistribution |-> Tally(interestRateLabels, rates)],
      geographicData |-> <<>>,
      listingLifecycle |->
        [statusDistribution |->
           [labels |-> [i \in DOMAIN statusDistribution |-> statusDistribution[i].status],
            values |-> [i \in DOMAIN statusDistribution |-> statusDistribution[i]._count]],
         daysOnMarketByType |-> Tally(daysOnMarketLabels, doms),
         updateFrequency |-> Tally(updateFrequencyLabels, freqs)]]

DashboardData == Assemble(qresult, averageDaysOnMarket, averageUpdateFrequency)

(***************************************************************************)
(* The handler GET, one action per stretch of code between two awaits.     *)
(***************************************************************************)
\* lines 356-397: the first Promise.all sends its five queries
Start ==
  /\ pc = "start"
  /\ qstate' = Send(Step1)
  /\ pc' = "await1"
  /\ modified' = FALSE
  /\ UNCHANGED <<env, last, listingsRoute, useQuery, qresult, locals, response>>

\* the store answers a query that is in flight
QueryFulfil(q) ==
  /\ qstate[q] = "pending"
  /\ qstate' = [qstate EXCEPT ![q] = "fulfilled"]
  /\ qresult' = [qresult EXCEPT ![q] = Answer(q)]
  /\ UNCHANGED <<env, last, listingsRoute, modified, useQuery, pc, locals,
                 response>>

\* a query that is in flight fails
QueryReject(q) ==
  /\ qstate[q] = "pending"
  /\ qstate' = [qstate EXCEPT ![q] = "rejected"]
  /\ UNCHANGED <<env, last, listingsRoute, modified, useQuery, pc, qresult,
                 locals, response>>

\* lines 399-438: the averages, then the loan-type grouping is awaited
ResumeStep1 ==
  /\ pc = "await1"
  /\ AllFulfilled(Step1)
  /\ LET activeListings == qresult["activeListings"]
         days == daysOnMarketListOf(activeListings, now)
         frequencies == updateFrequenciesOf(activeListings, now)
     IN /\ daysOnMarketList' = days
        /\ averageDaysOnMarket' = averageOfDays(days)
        /\ updateFrequencies' = frequencies
        /\ averageUpdateFrequency' = averageOfFrequencies(frequencies)
  /\ qstate' = Send(Step2)
  /\ pc' = "await2"
  /\ UNCHANGED <<env, last, listingsRoute, modified, useQuery, qresult,
                 response>>

\* ResumeStep2 with promises that send their query when they are built
ResumeStep2Eager ==
  /\ pc = "await2"
  /\ AllFulfilled(Step2)
  /\ qstate' = Send(Step3 \cup Step4)
  /\ pc' = "await3"
  /\ UNCHANGED <<env, last, listingsRoute, modified, useQuery, qresult, locals,
                 response>>

\* lines 440-486: the price and time-series queries are built, the status
\* grouping is awaited
ResumeStep2 ==
  /\ pc = "await2"
  /\ AllFulfilled(Step2)
  /\ qstate' = Send(Step3)
  /\ pc' = "await3"
  /\ UNCHANGED <<env, last, listingsRoute, modified, useQuery, qresult, locals,
                 response>>

\* lines 488-495: the second Promise.all sends the seven remaining queries
ResumeStep3 ==
  /\ pc = "await3"
  /\ AllFulfilled(Step3)
  /\ qstate' = Send(Step4)
  /\ pc' = "await4"
  /\ UNCHANGED <<env, last, listingsRoute, modified, useQuery, qresult, locals,
                 response>>

\* Respond that sends the payload itself as the body
RespondBare ==
  /\ pc = "await4"
  /\ AllFulfilled(Step4)
  /\ response' = [status |-> 200, body |-> DashboardData]
  /\ pc' = "done"
  /\ UNCHANGED <<env, last, listingsRoute, modified, useQuery, qstate, qresult,
                 locals>>

\* lines 497-744: the distributions are computed and the payload is returned
Respond ==
  /\ pc = "await4"
  /\ AllFulfilled(Step4)
  /\ response' = [status |-> 200, body |-> [data |-> DashboardData]]
  /\ pc' = "done"
  /\ UNCHANGED <<env, last, listingsRoute, modified, useQuery, qstate, qresult,
                 locals>>

\* a catch that answers with what has been computed so far
CatchDegraded ==
  /\ SomeRejected(Awaited(pc))
  /\ response' = [status |-> 200,
                  body |-> [data |-> DashboardData,
                            error |-> "Failed to fetch dashboard data"]]
  /\ pc' = "done"
  /\ UNCHANGED <<env, last, listingsRoute, modified, useQuery, qstate, qresult,
                 locals>>

\* a catch that sends the rejected queries once more
CatchRetry ==
  /\ SomeRejected(Awaited(pc))
  /\ qstate' = Send({q \in Awaited(pc) : qstate[q] = "rejected"})
  /\ UNCHANGED <<env, last, listingsRoute, modified, useQuery, pc, qresult,
                 locals, response>>

\* lines 745-760: the awaited Promise.all, or the awaited query, rejected
Catch ==
  /\ SomeRejected(Awaited(pc))
  /\ \E q \in Awaited(pc) :
       /\ qstate[q] = "rejected"
       /\ response' = [status |-> 500,
                       body |-> [error |-> "Failed to fetch dashboard data",
                                 details |-> q,
                                 code |-> "UNKNOWN_ERROR"]]
  /\ pc' = "done"
  /\ UNCHANGED <<env, last, listingsRoute, modified, useQuery, qstate, qresult,
                 locals>>

NoRequest == [none |-> TRUE]

\* the dashboard page is not open
Unmounted == [mounted |-> FALSE]

\* lines 355-356: the next request enters GET; nothing of the handler outlives
\* a request, every const of it is bound anew
NewRequest ==
  /\ pc = "done"
  /\ last' = [listings |-> listings, mortgages |-> mortgages, now |-> now,
              response |-> response]
  /\ pc' = "start"
  /\ qstate' = [q \in Queries |-> "idle"]
  /\ qresult' = [q \in Queries |-> Undefined]
  /\ daysOnMarketList' = <<>>
  /\ averageDaysOnMarket' = NaN
  /\ updateFrequencies' = <<>>
  /\ averageUpdateFrequency' = NaN
  /\ response' = NoResponse
  /\ UNCHANGED <<env, listingsRoute, modified, useQuery>>

(***************************************************************************)
(* The dashboard page: DashboardClient                                     *)
(* (src/src/components/dashboard/DashboardClient.tsx) and the service it   *)
(* fetches with (src/unnamed/part_000).  useQuery is the hook's record of  *)
(* its one query: isLoading, error and data are what the component reads,  *)
(* failureCount and fetching what the hook keeps to decide on a retry.     *)
(***************************************************************************)
\* the hook while a fetch is in flight and no fetch has succeeded yet
Loading(failures) ==
  [mounted |-> TRUE, isLoading |-> TRUE, error |-> Null, data |-> Null,
   failureCount |-> failures, fetching |-> TRUE]

\* fetchDashboardData that returns the body of any response
fetchDashboardDataUnchecked(res) ==
  IF res = Null
  THEN [threw |-> TRUE, error |-> "Failed to fetch", value |-> Null]
  ELSE [threw |-> FALSE, error |-> "", value |-> Some(res[1].body)]

\* DashboardService.fetchDashboardData, lines 4-10; res is the HTTP response,
\* Null when fetch itself rejected
fetchDashboardData(res) ==
  IF res = Null
  THEN [threw |-> TRUE, error |-> "Failed to fetch", value |-> Null]
  ELSE IF ~(res[1].status \in 200..299)
       THEN [threw |-> TRUE, error |-> "Failed to fetch dashboard data", value |-> Null]
       ELSE [threw |-> FALSE, error |-> "", value |-> Some(res[1].body)]

\* the hook after queryFn has settled with out: data on success, another
\* fetch while failures are within retry, the error after that
Settled(q, out) ==
  IF ~out.threw
  THEN [mounted |-> TRUE, isLoading |-> FALSE, error |-> Null, data |-> out.value,
        failureCount |-> 0, fetching |-> FALSE]
  ELSE IF q.failureCount < RetryLimit
       THEN Loading(q.failureCount + 1)
       ELSE [mounted |-> TRUE, isLoading |-> FALSE, error |-> Some(out.error),
             data |-> Null, failureCount |-> q.failureCount + 1, fetching |-> FALSE]

\* what DashboardClient returns, lines 73-105; with a body that has no data
\* field dashboardData is undefined and reading its totalListings throws
DashboardClientView(q) ==
  IF q.isLoading THEN "Spinner"
  ELSE IF q.error # Null THEN "ErrorAlert"
  ELSE IF q.data = Null THEN "NoDataAlert"
  ELSE IF "data" \in DOMAIN q.data[1] THEN "Charts"
  ELSE "TypeError"

Mounted == useQuery # Unmounted

Fetching == Mounted /\ useQuery.fetching

\* lines 66-71: the component mounts, the hook calls queryFn
ClientMount ==
  /\ ~Mounted
  /\ pc = "start"
  /\ useQuery' = Loading(0)
  /\ UNCHANGED <<env, last, listingsRoute, modified, pc, qstate, qresult,
                 locals, response>>

\* line 5: fetch rejected, the request did not reach the handler
ClientFetchRejected ==
  /\ Fetching
  /\ pc = "start"
  /\ useQuery' = Settled(useQuery, fetchDashboardData(Null))
  /\ UNCHANGED <<env, last, listingsRoute, modified, pc, qstate, qresult,
                 locals, response>>

\* lines 5-9: fetch resolved with the handler's response; on a retry the
\* handler is entered anew
ClientFetchResponded ==
  /\ Fetching
  /\ pc = "done"
  /\ useQuery' = Settled(useQuery, fetchDashboardData(Some(response)))
  /\ IF useQuery'.fetching
     THEN /\ pc' = "start"
          /\ qstate' = [q \in Queries |-> "idle"]
          /\ qresult' = [q \in Queries |-> Undefined]
          /\ daysOnMarketList' = <<>>
          /\ averageDaysOnMarket' = NaN
          /\ updateFrequencies' = <<>>
          /\ averageUpdateFrequency' = NaN
          /\ response' = NoResponse
     ELSE UNCHANGED <<pc, qstate, qresult, locals, response>>
  /\ UNCHANGED <<env, last, listingsRoute, modified>>

(***************************************************************************)
(* The listing service that /api/listings calls.  A stored listing has an  *)
(* id besides the columns above.                                           *)
(***************************************************************************)
HasId(ls, id) == \E i \in DOMAIN ls : ls[i].id = id

\* an id no stored listing has
FreshId(ls) ==
  ToString(CHOOSE k \in 1..(Len(ls) + 1) : ~HasId(ls, ToString(k)))

\* the rows s with ids given in table order
Keyed(s) == [i \in DOMAIN s |-> [id |-> ToString(i)] @@ s[i]]

RECURSIVE SubSeqs(_)
\* the selections of rows of ls, in table order
SubSeqs(ls) ==
  IF ls = <<>> THEN {<<>>}
  ELSE LET rest == SubSeqs(Tail(ls))
       IN rest \cup {<<Head(ls)>> \o r : r \in rest}

\* listingService.findById(id), .search(query), .findAll(): what the call may
\* resolve with
findById(ls, id) ==
  LET Hit(l) == l.id = id
      hit == SelectSeq(ls, Hit)
  IN {IF hit = <<>> THEN Null ELSE Some(hit[1])}

search(ls, query) == SubSeqs(ls)

findAll(ls) == {ls}

\* listingService.create(data), .update(data), .delete(id): the table after
create(ls, data) == Append(ls, [id |-> FreshId(ls)] @@ data)

update(ls, data) ==
  [i \in DOMAIN ls |-> IF ls[i].id = data.id THEN data @@ ls[i] ELSE ls[i]]

delete(ls, id) ==
  LET Other(l) == l.id # id
  IN SelectSeq(ls, Other)

\* the call can resolve: update and delete need the row they name
CanResolve(call, ls) ==
  CASE call.op = "update" -> "id" \in DOMAIN call.arg /\ HasId(ls, call.arg.id)
    [] call.op = "delete" -> HasId(ls, call.arg)
    [] OTHER -> TRUE

\* the table after the call has resolved
TableAfter(call, ls) ==
  CASE call.op = "create" -> create(ls, call.arg)
    [] call.op = "update" -> update(ls, call.arg)
    [] call.op = "delete" -> delete(ls, call.arg)
    [] OTHER -> ls

\* the values the call may resolve with
ResultsOf(call, ls) ==
  CASE call.op = "findById" -> findById(ls, call.arg)
    [] call.op = "search" -> search(ls, call.arg)
    [] call.op = "findAll" -> findAll(ls)
    [] call.op = "create" -> {create(ls, call.arg)[Len(ls) + 1]}
    [] call.op = "update" -> findById(update(ls, call.arg), call.arg.id)
    [] call.op = "delete" -> {Null}

(***************************************************************************)
(* The handlers of /api/listings (src/src/app/api/listings/route.ts).      *)
(***************************************************************************)
ListingsPath == "/api/listings"

\* if (id), if (query), if (!id) on a value of searchParams.get
Truthy(param) == param # Null /\ param[1] # ""

Call(op, arg) == [op |-> op, arg |-> arg, state |-> "pending"]

Arrive(route, method, id, query, body) ==
  /\ lpc = "idle"
  /\ lreq' = [route |-> route, method |-> method, id |-> id, query |-> query,
              body |-> body]
  /\ lbefore' = listings

\* GET that looks at query before id
ListingsGETQueryFirst(id, query) ==
  /\ Arrive(ListingsPath, "GET", id, query, Null)
  /\ lcalls' = IF Truthy(query) THEN <<Call("search", query[1])>>
               ELSE IF Truthy(id) THEN <<Call("findById", id[1])>>
               ELSE <<Call("findAll", Null)>>
  /\ lpc' = "call"
  /\ UNCHANGED <<env, modified, useQuery, pc, qstate, qresult, locals,
                 response, last, lresponse>>

\* GET, lines 26-45: up to the await of the one service call
ListingsGET(id, query) ==
  /\ Arrive(ListingsPath, "GET", id, query, Null)
  /\ lcalls' = IF Truthy(id) THEN <<Call("findById", id[1])>>
               ELSE IF Truthy(query) THEN <<Call("search", query[1])>>
               ELSE <<Call("findAll", Null)>>
  /\ lpc' = "call"
  /\ UNCHANGED <<env, modified, useQuery, pc, qstate, qresult, locals,
                 response, last, lresponse>>

\* POST, lines 59-61, and PUT, lines 75-77: up to await request.json();
\* body is Null when the request body is not JSON
ListingsPOST(body) ==
  /\ Arrive(ListingsPath, "POST", Null, Null, body)
  /\ lcalls' = <<>>
  /\ lpc' = "json"
  /\ UNCHANGED <<env, modified, useQuery, pc, qstate, qresult, locals,
                 response, last, lresponse>>

ListingsPUT(body) ==
  /\ Arrive(ListingsPath, "PUT", Null, Null, body)
  /\ lcalls' = <<>>
  /\ lpc' = "json"
  /\ UNCHANGED <<env, modified, useQuery, pc, qstate, qresult, locals,
                 response, last, lresponse>>

\* DELETE that hands the id to the service unchecked
ListingsDELETEUnchecked(id) ==
  /\ Arrive(ListingsPath, "DELETE", id, Null, Null)
  /\ lcalls' = <<Call("delete", IF id = Null THEN "" ELSE id[1])>>
  /\ lpc' = "call"
  /\ UNCHANGED <<env, modified, useQuery, pc, qstate, qresult, locals,
                 response, last, lresponse>>

\* DELETE, lines 93-103: 400 without an id, else up to the await of delete
ListingsDELETE(id) ==
  /\ Arrive(ListingsPath, "DELETE", id, Null, Null)
  /\ IF ~Truthy(id)
     THEN /\ lresponse' = [status |-> 400, body |-> [error |-> "ID is required"]]
          /\ lcalls' = <<>>
          /\ lpc' = "done"
     ELSE /\ lcalls' = <<Call("delete", id[1])>>
          /\ lpc' = "call"
          /\ UNCHANGED lresponse
  /\ UNCHANGED <<env, modified, useQuery, pc, qstate, qresult, locals,
                 response, last>>

\* lines 62 and 78: request.json() resolved, the service is called with the data
JsonResolved ==
  /\ lpc = "json"
  /\ lreq.body # Null
  /\ lcalls' = <<Call(IF lreq.method = "POST" THEN "create" ELSE "update", lreq.body[1])>>
  /\ lpc' = "call"
  /\ UNCHANGED <<env, modified, useQuery, pc, qstate, qresult, locals,
                 response, last, lreq, lresponse, lbefore>>

FailureOf(method) ==
  CASE method = "GET" -> "Failed to fetch listings"
    [] method = "POST" -> "Failed to create listing"
    [] method = "PUT" -> "Failed to update listing"
    [] method = "DELETE" -> "Failed to delete listing"

\* a parse failure answered as a client error
JsonRejectedBadRequest ==
  /\ lpc = "json"
  /\ lreq.body = Null
  /\ lresponse' = [status |-> 400, body |-> [error |-> FailureOf(lreq.method)]]
  /\ lpc' = "done"
  /\ UNCHANGED <<env, modified, useQuery, pc, qstate, qresult, locals,
                 response, last, lreq, lcalls, lbefore>>

\* lines 64-66 and 80-82: request.json() rejected
JsonRejected ==
  /\ lpc = "json"
  /\ lreq.body = Null
  /\ lresponse' = [status |-> 500, body |-> [error |-> FailureOf(lreq.method)]]
  /\ lpc' = "done"
  /\ UNCHANGED <<env, modified, useQuery, pc, qstate, qresult, locals,
                 response, last, lreq, lcalls, lbefore>>

\* lines 35, 41, 46, 63, 79, 104: the service call resolved
ServiceResolved ==
  /\ lpc = "call"
  /\ lreq.route = ListingsPath
  /\ CanResolve(lcalls[1], listings)
  /\ listings' = TableAfter(lcalls[1], listings)
  /\ lcalls' = <<[lcalls[1] EXCEPT !.state = "fulfilled"]>>
  /\ \E result \in ResultsOf(lcalls[1], listings) :
       lresponse' =
         [status |-> IF lreq.method = "POST" THEN 201 ELSE 200,
          body |-> IF lreq.method = "DELETE"
                   THEN [message |-> "Listing deleted successfully"]
                   ELSE [json |-> result]]
  /\ lpc' = "done"
  /\ modified' = (modified \/ listings' # listings)
  /\ UNCHANGED <<mortgages, now, tz, useQuery, pc, qstate, qresult, locals,
                 response, last, lreq, lbefore>>

\* lines 47-50, 64-66, 80-82, 105-107: the service call rejected
ServiceRejected ==
  /\ lpc = "call"
  /\ lreq.route = ListingsPath
  /\ lcalls' = <<[lcalls[1] EXCEPT !.state = "rejected"]>>
  /\ lresponse' = [status |-> 500, body |-> [error |-> FailureOf(lreq.method)]]
  /\ lpc' = "done"
  /\ UNCHANGED <<env, modified, useQuery, pc, qstate, qresult, locals,
                 response, last, lreq, lbefore>>

\* the handler has returned; the route takes its next request
ListingsReturn ==
  /\ lpc = "done"
  /\ lpc' = "idle"
  /\ lreq' = NoRequest
  /\ lcalls' = <<>>
  /\ lresponse' = NoResponse
  /\ lbefore' = <<>>
  /\ UNCHANGED <<env, modified, useQuery, pc, qstate, qresult, locals,
                 response, last>>

(***************************************************************************)
(* The handler of /api/listings/recent (src/unnamed/part_001).             *)
(***************************************************************************)
RecentPath == "/api/listings/recent"

RECURSIVE InsertOldest(_, _)
\* l put into the rows ordered by createdAt ascending
InsertOldest(l, sorted) ==
  IF sorted = <<>> THEN <<l>>
  ELSE IF Head(sorted).createdAt <= l.createdAt
       THEN <<Head(sorted)>> \o InsertOldest(l, Tail(sorted))
       ELSE <<l>> \o sorted

RECURSIVE InsertNewest(_, _)
\* l put into the rows ordered by createdAt descending, after its equals
InsertNewest(l, sorted) ==
  IF sorted = <<>> THEN <<l>>
  ELSE IF Head(sorted).createdAt >= l.createdAt
       THEN <<Head(sorted)>> \o InsertNewest(l, Tail(sorted))
       ELSE <<l>> \o sorted

RECURSIVE NewestFirst(_)
NewestFirst(ls) ==
  IF ls = <<>> THEN <<>>
  ELSE InsertNewest(ls[Len(ls)], NewestFirst(SubSeq(ls, 1, Len(ls) - 1)))

\* prisma.listing.findMany({ take: 10, orderBy: { createdAt: 'desc' }, select: ... })
FindRecent(ls) ==
  LET rows == Take(NewestFirst(ls), RecentLimit)
  IN [i \in DOMAIN rows |->
        [id |-> rows[i].id, price |-> rows[i].price, status |-> rows[i].status,
         createdAt |-> rows[i].createdAt]]

\* lines 37-59: up to the await of findMany
RecentGET ==
  /\ Arrive(RecentPath, "GET", Null, Null, Null)
  /\ lcalls' = <<Call("findMany", Null)>>
  /\ lpc' = "call"
  /\ UNCHANGED <<env, modified, useQuery, pc, qstate, qresult, locals,
                 response, last, lresponse>>

\* RecentResolved that stamps the rows it has served
RecentResolvedTouching ==
  /\ lpc = "call"
  /\ lreq.route = RecentPath
  /\ listings' = [i \in DOMAIN listings |-> [listings[i] EXCEPT !.updatedAt = now]]
  /\ lcalls' = <<[lcalls[1] EXCEPT !.state = "fulfilled"]>>
  /\ lresponse' = [status |-> 200, body |-> [json |-> FindRecent(listings)]]
  /\ lpc' = "done"
  /\ modified' = (modified \/ listings' # listings)
  /\ UNCHANGED <<mortgages, now, tz, useQuery, pc, qstate, qresult, locals,
                 response, last, lreq, lbefore>>

\* line 62: the query resolved
RecentResolved ==
  /\ lpc = "call"
  /\ lreq.route = RecentPath
  /\ lcalls' = <<[lcalls[1] EXCEPT !.state = "fulfilled"]>>
  /\ lresponse' = [status |-> 200, body |-> [json |-> FindRecent(listings)]]
  /\ lpc' = "done"
  /\ UNCHANGED <<env, modified, useQuery, pc, qstate, qresult, locals,
                 response, last, lreq, lbefore>>

\* lines 63-70: the query rejected
RecentRejected ==
  /\ lpc = "call"
  /\ lreq.route = RecentPath
  /\ lcalls' = <<[lcalls[1] EXCEPT !.state = "rejected"]>>
  /\ lresponse' = [status |-> 500, body |-> [error |-> "Failed to fetch recent listings"]]
  /\ lpc' = "done"
  /\ UNCHANGED <<env, modified, useQuery, pc, qstate, qresult, locals,
                 response, last, lreq, lbefore>>

(***************************************************************************)
(* The request against small stores: every order in which the queries in   *)
(* flight complete, and every failure.                                     *)
(***************************************************************************)
\* Wednesday 2024-01-10T12:00Z
Now0 == 19732 * HoursPerDay + 12

Ago(days, hours) == Now0 - days * HoursPerDay - hours

Listing(status, price, createdAt, lastStatusChange, updatedAt, loanType) ==
  [status |-> status, price |-> price, createdAt |-> createdAt,
   lastStatusChange |-> lastStatusChange, updatedAt |-> updatedAt,
   denormalizedAssumableLoanType |-> loanType]

Mortgage(balance, rate, createdAt, term) ==
  [currentBalance |-> balance, interestRate |-> rate, createdAt |-> createdAt,
   remainingTerm |-> term]

ListingTable ==
  << Listing(ACTIVE, 100000, Ago(10, 0), Null, Ago(2, 0), Some("FHA")),
     Listing(ACTIVE, 300000, Ago(45, 5), Some(Ago(20, 0)), Ago(45, 5), Some("VA")),
     Listing(ACTIVE, 1200000, Ago(100, 0), Some(Ago(120, 0)), Ago(1, 0), Some("FHA")),
     Listing("SOLD", 250000, Ago(8, 14), Some(Ago(1, 0)), Ago(1, 0), Null),
     Listing(ACTIVE, 750000, Ago(200, 0), Null, Ago(200, 0), Null) >>

MortgageTable ==
  << Mortgage(100000, Ratio(3, 1), Ago(5 * DaysPerYear, 0), 300),
     Mortgage(320000, Ratio(13, 2), Ago(12 * DaysPerYear, 1), 216),
     Mortgage(600000, Ratio(9, 2), Ago(21 * DaysPerYear, 0), 108),
     Mortgage(250001, Ratio(4, 1), Ago(0, 3), 360) >>

Zones == {-5, 0, 9}

\* the handler at position p with the queries of done answered by the store
\* and those of sent in flight
Reached(p, done, sent) ==
  /\ now = Now0
  /\ pc = p
  /\ qstate = [q \in Queries |-> IF q \in done THEN "fulfilled"
                                 ELSE IF q \in sent THEN "pending" ELSE "idle"]
  /\ qresult = [q \in Queries |-> IF q \in done THEN Answer(q) ELSE Undefined]
  /\ response = NoResponse
  /\ last = NoRequest
  /\ lpc = "idle"
  /\ lreq = NoRequest
  /\ lcalls = <<>>
  /\ lresponse = NoResponse
  /\ lbefore = <<>>
  /\ modified = FALSE
  /\ useQuery = Unmounted

\* the locals before line 399 has run, and after line 420 has
FreshLocals ==
  /\ daysOnMarketList = <<>>
  /\ averageDaysOnMarket = NaN
  /\ updateFrequencies = <<>>
  /\ averageUpdateFrequency = NaN

ComputedLocals ==
  LET activeListings == FindActiveListings(listings)
  IN /\ daysOnMarketList = daysOnMarketListOf(activeListings, now)
     /\ averageDaysOnMarket = averageOfDays(daysOnMarketList)
     /\ updateFrequencies = updateFrequenciesOf(activeListings, now)
     /\ averageUpdateFrequency = averageOfFrequencies(updateFrequencies)

\* the stores of a request: the first rows of ListingTable, or its sold row alone
ListingStores ==
  {Keyed(SubSeq(ListingTable, 1, n)) : n \in 0..MaxListings}
    \cup {Keyed(SubSeq(ListingTable, 4, 4))}

Init ==
  /\ listings \in ListingStores
  /\ \E n \in 0..MaxMortgages : mortgages = SubSeq(MortgageTable, 1, n)
  /\ tz = 0
  /\ Reached("start", {}, {})
  /\ FreshLocals

Next ==
  \/ Start
  \/ \E q \in Queries : QueryFulfil(q)
  \/ \E q \in Queries : QueryReject(q)
  \/ ResumeStep1
  \/ ResumeStep2
  \/ ResumeStep3
  \/ Respond
  \/ Catch

Spec == Init /\ [][Next]_vars

(***************************************************************************)
(* The handler's computations over wider populations: each specification   *)
(* below starts where the handler waits with the rows already fetched, and *)
(* runs the stretch of code that computes on them.                         *)
(***************************************************************************)
SeqsUpTo(S, n) == UNION {[1..k -> S] : k \in 0..n}

\* the sequences of at most n rows of the list rows, in the order of the list
SortedSeqsUpTo(rows, n) ==
  UNION {{[i \in 1..k |-> rows[f[i]]] :
            f \in {g \in [1..k -> DOMAIN rows] : \A i \in 1..(k - 1) : g[i] <= g[i + 1]}} :
         k \in 0..n}

\* ---- days on market (lines 399-410) ----
DatedCreated == {Ago(-2, 0), Ago(0, 0), Ago(0, 23), Ago(1, 0), Ago(10, 5), Ago(100, 0)}
DatedStatusChange ==
  {Null, Some(Ago(120, 0)), Some(Ago(10, 6)), Some(Ago(5, 0)), Some(Ago(0, 0)),
   Some(Ago(-3, 0))}
DatedRows ==
  {Listing(ACTIVE, 300000, c, s, c, Null) : c \in DatedCreated, s \in DatedStatusChange}

InitDays ==
  /\ \E rows \in SeqsUpTo(DatedRows, MaxDated) : listings = Keyed(rows)
  /\ mortgages = <<>>
  /\ tz = 0
  /\ Reached("await1", Step1, {})
  /\ FreshLocals

SpecDays == InitDays /\ [][ResumeStep1]_vars

\* ---- price distribution (lines 440-460, 706-709) ----
PricedRows ==
  << Listing(ACTIVE, -1, Ago(1, 0), Null, Ago(1, 0), Null),
     Listing(ACTIVE, 0, Ago(1, 0), Null, Ago(1, 0), Null),
     Listing(ACTIVE, 100000, Ago(1, 0), Null, Ago(1, 0), Null),
     Listing(ACTIVE, 249999, Ago(1, 0), Null, Ago(1, 0), Null),
     Listing(ACTIVE, 250000, Ago(1, 0), Null, Ago(1, 0), Null),
     Listing(ACTIVE, 300000, Ago(1, 0), Null, Ago(1, 0), Null),
     Listing(ACTIVE, 499999, Ago(1, 0), Null, Ago(1, 0), Null),
     Listing(ACTIVE, 500000, Ago(1, 0), Null, Ago(1, 0), Null),
     Listing(ACTIVE, 749999, Ago(1, 0), Null, Ago(1, 0), Null),
     Listing(ACTIVE, 750000, Ago(1, 0), Null, Ago(1, 0), Null),
     Listing(ACTIVE, 999999, Ago(1, 0), Null, Ago(1, 0), Null),
     Listing(ACTIVE, 1000000, Ago(1, 0), Null, Ago(1, 0), Null),
     Listing(ACTIVE, 1200000, Ago(1, 0), Null, Ago(1, 0), Null),
     Listing("SOLD", 300000, Ago(1, 0), Null, Ago(1, 0), Null) >>

\* the five price counts are in flight; the rest of the request is answered
InitPrice ==
  /\ \E rows \in SortedSeqsUpTo(PricedRows, MaxPriced) : listings = Keyed(rows)
  /\ mortgages = <<>>
  /\ tz = 0
  /\ Reached("await4", Queries \ Range(PriceQueries), Range(PriceQueries))
  /\ ComputedLocals

NextPrice ==
  \/ \E q \in Range(PriceQueries) : QueryFulfil(q)
  \/ Respond

SpecPrice == InitPrice /\ [][NextPrice]_vars

\* ---- mortgage analytics (lines 538-621) ----
MortgageCreated ==
  {Ago(-1, 0), Ago(0, 0), Ago(5 * DaysPerYear, 0), Ago(5 * DaysPerYear, 1),
   Ago(10 * DaysPerYear, 0), Ago(10 * DaysPerYear, 1), Ago(15 * DaysPerYear, 0),
   Ago(15 * DaysPerYear, 1), Ago(20 * DaysPerYear, 0), Ago(20 * DaysPerYear, 1),
   Ago(30 * DaysPerYear, 0)}
MortgageBalances == {-1, 0, 100000, 100001, 250000, 250001, 500000, 500001}
MortgageRates ==
  {Ratio(-1, 2), Ratio(0, 1), Ratio(3, 1), Ratio(301, 100), Ratio(7, 2), Ratio(4, 1),
   Ratio(401, 100), Ratio(5, 1), Ratio(501, 100), Ratio(6, 1), Ratio(601, 100)}
\* one column varied at a time around a base row
MortgageRows ==
  {Mortgage(50000, Ratio(5, 2), c, 360) : c \in MortgageCreated}
    \cup {Mortgage(b, Ratio(5, 2), Ago(DaysPerYear, 0), 360) : b \in MortgageBalances}
    \cup {Mortgage(50000, r, Ago(DaysPerYear, 0), 360) : r \in MortgageRates}

InitMortgage ==
  /\ listings = <<>>
  /\ mortgages \in SeqsUpTo(MortgageRows, MaxMortgages)
  /\ tz = 0
  /\ Reached("await4", Queries, {})
  /\ ComputedLocals

SpecMortgage == InitMortgage /\ [][Respond]_vars

\* ---- listing lifecycle (lines 623-687) ----
LifecycleCreated ==
  {Ago(-2, 0), Ago(0, 0), Ago(0, 23), Ago(1, 0), Ago(2, 0), Ago(4, 0), Ago(5, 0),
   Ago(30, 0), Ago(30, 23), Ago(31, 0), Ago(60, 23), Ago(61, 0), Ago(90, 23),
   Ago(91, 0), Ago(100, 0), Ago(1000, 0)}
LifecycleUpdated ==
  {Ago(-1, 0), Ago(0, 0), Ago(1, 0), Ago(4, 0), Ago(32, 0), Ago(33, 0), Ago(249, 0),
   Ago(250, 0), Ago(1000, 0)}
LifecycleStatusChange == {Null, Some(Ago(20, 0))}
LifecycleRows ==
  {Listing(ACTIVE, 300000, c, s, u, Null) :
     c \in LifecycleCreated, s \in LifecycleStatusChange, u \in LifecycleUpdated}

InitLifecycle ==
  /\ \E rows \in SeqsUpTo(LifecycleRows, MaxRows) : listings = Keyed(rows)
  /\ mortgages = <<>>
  /\ tz = 0
  /\ Reached("await4", Queries, {})
  /\ ComputedLocals

SpecLifecycle == InitLifecycle /\ [][Respond]_vars

\* ---- listing trends (lines 462-480, 497-536, 710-713) ----
\* Mon 2024-01-01 18:00Z, Tue 01-02 03:00Z, Tue 01-02 22:00Z, Wed 01-03 03:00Z,
\* Thu 01-04 10:00Z, Wed 2023-12-27 12:00Z, Thu 2023-06-15 12:00Z
SeriesCreated ==
  {Ago(8, 18), Ago(8, 9), Ago(7, 14), Ago(7, 9), Ago(6, 2), Ago(14, 0), Ago(209, 0)}
SeriesRows == {Listing(ACTIVE, 300000, c, Null, c, Null) : c \in SeriesCreated}

InitSeries ==
  /\ \E rows \in SeqsUpTo(SeriesRows, MaxSeries) : listings = Keyed(rows)
  /\ mortgages = <<>>
  /\ tz \in Zones
  /\ Reached("await4", Queries, {})
  /\ ComputedLocals

SpecSeries == InitSeries /\ [][Respond]_vars

\* ---- assumable loan types (lines 422-438, 702-705) ----
LoanRows ==
  << Listing(ACTIVE, 300000, Ago(1, 0), Null, Ago(1, 0), Some("FHA")),
     Listing(ACTIVE, 300000, Ago(1, 0), Null, Ago(1, 0), Some("VA")),
     Listing(ACTIVE, 300000, Ago(1, 0), Null, Ago(1, 0), Some("Conventional")),
     Listing(ACTIVE, 300000, Ago(1, 0), Null, Ago(1, 0), Some("USDA")),
     Listing(ACTIVE, 300000, Ago(1, 0), Null, Ago(1, 0), Some("")),
     Listing(ACTIVE, 300000, Ago(1, 0), Null, Ago(1, 0), Null),
     Listing("SOLD", 300000, Ago(1, 0), Null, Ago(1, 0), Some("FHA")) >>

InitLoans ==
  /\ \E rows \in SortedSeqsUpTo(LoanRows, MaxLoans) : listings = Keyed(rows)
  /\ mortgages = <<>>
  /\ tz = 0
  /\ Reached("await4", Queries, {})
  /\ ComputedLocals

SpecLoans == InitLoans /\ [][Respond]_vars

\* ---- status distribution (lines 482-486, 729-733) ----
Statuses == {ACTIVE, "PENDING", "SOLD"}

StatusRows == {Listing(st, 300000, Ago(1, 0), Null, Ago(1, 0), Null) : st \in Statuses}

InitStatus ==
  /\ \E rows \in SeqsUpTo(StatusRows, MaxStatusRows) : listings = Keyed(rows)
  /\ mortgages = <<>>
  /\ tz = 0
  /\ Reached("await4", Queries, {})
  /\ ComputedLocals

SpecStatus == InitStatus /\ [][Respond]_vars

\* ---- GET /api/listings/recent (src/unnamed/part_001) ----
\* a listing created k days before now
RecentRow(k) ==
  Listing(IF k % 2 = 0 THEN ACTIVE ELSE "SOLD", 100000 + k, Ago(k, 0), Null, Ago(k, 0),
          Null)

\* tables of up to MaxRecentStore rows in three orders of creation; the
\* longest have two rows created at the same time
RecentStores ==
  {Keyed([i \in 1..n |-> RecentRow((i * stride + shift) % RecentSpan)]) :
     n \in 0..MaxRecentStore, stride \in {1, 4, 7}, shift \in 0..2}

InitRecent ==
  /\ listings \in RecentStores
  /\ mortgages = <<>>
  /\ tz = 0
  /\ Reached("start", {}, {})
  /\ FreshLocals

NextRecent ==
  \/ RecentGET
  \/ RecentResolved
  \/ RecentRejected
  \/ ListingsReturn

SpecRecent == InitRecent /\ [][NextRecent]_vars

\* ---- the update frequencies (lines 412-420) ----
FrequencyCreated == {Ago(-1, 0), Ago(0, 23), Ago(1, 12), Ago(4, 0)}
FrequencyUpdated ==
  {Ago(-1, 0), Ago(0, 0), Ago(0, 23), Ago(1, 12), Ago(4, 0), Ago(100, 0)}
\* active rows of every pair of the two dates, and one sold row updated
\* before it was created
FrequencyRows ==
  {Listing(ACTIVE, 300000, c, Null, u, Null) :
     c \in FrequencyCreated, u \in FrequencyUpdated}
    \cup {Listing("SOLD", 300000, Ago(1, 12), Null, Ago(4, 0), Null)}

InitFrequency ==
  /\ \E rows \in SeqsUpTo(FrequencyRows, MaxFrequencyRows) : listings = Keyed(rows)
  /\ mortgages = <<>>
  /\ tz = 0
  /\ Reached("await1", Step1, {})
  /\ FreshLocals

SpecFrequency == InitFrequency /\ [][ResumeStep1]_vars

\* ---- the five bucketed charts (lines 538-687, 714-742) ----
InitCharts == InitMortgage \/ InitLifecycle

SpecCharts == InitCharts /\ [][Respond]_vars

(***************************************************************************)
(* The listings route against a small table: every request, every outcome  *)
(* of its body and of its service call, one request after the other.       *)
(***************************************************************************)
IdParams == {Null, Some(""), Some("1"), Some("7")}

QueryParams == {Null, Some(""), Some("oak")}

NewListing == Listing(ACTIVE, 500000, Now0, Null, Now0, Some("VA"))

\* Null: a body that is not JSON
PostBodies == {Null, Some(NewListing)}

PutBodies ==
  {Null, Some([id |-> "1", status |-> "SOLD"]), Some([id |-> "7", status |-> "SOLD"]),
   Some([status |-> "SOLD"])}

InitListings ==
  /\ listings \in {Keyed(SubSeq(ListingTable, 1, n)) : n \in 0..(MaxStore - 1)}
  /\ mortgages = <<>>
  /\ tz = 0
  /\ Reached("start", {}, {})
  /\ FreshLocals

NextListings ==
  \/ \E id \in IdParams, query \in QueryParams : ListingsGET(id, query)
  \/ \E body \in PostBodies : Len(listings) < MaxStore /\ ListingsPOST(body)
  \/ \E body \in PutBodies : ListingsPUT(body)
  \/ \E id \in IdParams : ListingsDELETE(id)
  \/ JsonResolved
  \/ JsonRejected
  \/ ServiceResolved
  \/ ServiceRejected
  \/ ListingsReturn

SpecListings == InitListings /\ [][NextListings]_vars

(***************************************************************************)
(* The dashboard page and the handler that answers its fetches.            *)
(***************************************************************************)
InitClient ==
  /\ listings \in ListingStores
  /\ mortgages = SubSeq(MortgageTable, 1, 1)
  /\ tz = 0
  /\ Reached("start", {}, {})
  /\ FreshLocals

NextClient ==
  \/ ClientMount
  \/ ClientFetchRejected
  \/ ClientFetchResponded
  \/ Fetching /\ Start
  \/ \E q \in Queries : QueryFulfil(q)
  \/ \E q \in Queries : QueryReject(q)
  \/ ResumeStep1
  \/ ResumeStep2
  \/ ResumeStep3
  \/ Respond
  \/ Catch

SpecClient == InitClient /\ [][NextClient]_vars

(***************************************************************************)
(* Dashboard requests whose queries all succeed, and one request to        *)
(* /api/listings that creates, updates or deletes a listing before,        *)
(* during or after one of them.                                            *)
(***************************************************************************)
\* a sold listing of last week, an active one of 100 days ago, an active
\* one of 400 days ago with a negative price, an active one of 10 days ago
SkewTable ==
  << Listing("SOLD", 250000, Ago(8, 14), Some(Ago(1, 0)), Ago(1, 0), Null),
     Listing(ACTIVE, 100000, Ago(100, 0), Null, Ago(2, 0), Some("FHA")),
     Listing(ACTIVE, -1, Ago(400, 0), Null, Ago(400, 0), Some("VA")),
     Listing(ACTIVE, 1200000, Ago(10, 0), Null, Ago(1, 0), Some("FHA")) >>

SkewPuts == {Some([id |-> "2", status |-> "SOLD"])}
SkewDeletes == {Some("1"), Some("2")}

InitSkew ==
  /\ \E n \in 0..MaxSkewStore : listings = Keyed(SubSeq(SkewTable, 1, n))
  /\ mortgages = <<>>
  /\ tz = 0
  /\ Reached("start", {}, {})
  /\ FreshLocals

NextSkew ==
  \/ Start
  \/ \E q \in Queries : QueryFulfil(q)
  \/ ResumeStep1
  \/ ResumeStep2
  \/ ResumeStep3
  \/ Respond
  \/ NewRequest
  \/ ListingsPOST(Some(NewListing))
  \/ \E body \in SkewPuts : ListingsPUT(body)
  \/ \E id \in SkewDeletes : ListingsDELETE(id)
  \/ JsonResolved
  \/ ServiceResolved

SpecSkew == InitSkew /\ [][NextSkew]_vars

(***************************************************************************)
(* Requests one after the other: dashboard requests whose queries all      *)
(* succeed, and between any two of them requests to /api/listings that     *)
(* update or delete a listing.                                             *)
(***************************************************************************)
InitSessions ==
  /\ listings \in ListingStores
  /\ \E n \in 0..MaxMortgages : mortgages = SubSeq(MortgageTable, 1, n)
  /\ tz = 0
  /\ Reached("start", {}, {})
  /\ FreshLocals

\* no dashboard request is between its entry and the collection of its response
BetweenRequests == pc = "start"

NextSessions ==
  \/ lpc = "idle" /\ Start
  \/ \E q \in Queries : QueryFulfil(q)
  \/ ResumeStep1
  \/ ResumeStep2
  \/ ResumeStep3
  \/ Respond
  \/ lpc = "idle" /\ NewRequest
  \/ \E body \in PutBodies : BetweenRequests /\ ListingsPUT(body)
  \/ \E id \in IdParams : BetweenRequests /\ ListingsDELETE(id)
  \/ JsonResolved
  \/ JsonRejected
  \/ ServiceResolved
  \/ ServiceRejected
  \/ ListingsReturn

SpecSessions == InitSessions /\ [][NextSessions]_vars

(***************************************************************************)
(* The two reading routes side by side: one dashboard request with every   *)
(* outcome of its queries, and requests to /api/listings/recent that come  *)
(* in at any point of it.                                                  *)
(***************************************************************************)
InitReads ==
  /\ listings \in ListingStores
  /\ mortgages = SubSeq(MortgageTable, 1, 1)
  /\ tz = 0
  /\ Reached("start", {}, {})
  /\ FreshLocals

NextReads ==
  \/ Next
  \/ RecentGET
  \/ RecentResolved
  \/ RecentRejected
  \/ ListingsReturn

SpecReads == InitReads /\ [][NextReads]_vars

(***************************************************************************)
(* Properties of the request (specification Spec).                         *)
(***************************************************************************)
Responded == response # NoResponse

\* C1: when any query of the request has failed, in any step and at any
\* position of a concurrent group, the response is HTTP 500 with an error
\* body and no data field.
C1_FailureIsAllOrNothing ==
  (Responded /\ \E q \in Queries : qstate[q] = "rejected")
    => /\ response.status = 500
       /\ "error" \in DOMAIN response.body
       /\ "data" \notin DOMAIN response.body

\* a request whose last group had computed six of its seven results when the
\* seventh query failed, answered 500
C1_Witness ==
  /\ response.status = 500
  /\ qstate["price3"] = "rejected"
  /\ \A q \in Queries \ {"price3"} : qstate[q] = "fulfilled"
  /\ Len(listings) = MaxListings

\* the payload the store's contents and the clock determine
StoreAnswers == [q \in Queries |-> Answer(q)]

PayloadOfStore ==
  LET activeListings == StoreAnswers["activeListings"]
  IN Assemble(StoreAnswers,
              averageOfDays(daysOnMarketListOf(activeListings, now)),
              averageOfFrequencies(updateFrequenciesOf(activeListings, now)))

\* C2: a payload is sent only when every query of the request has completed,
\* and it is the one payload the store and the clock determine, whatever the
\* order in which the concurrent queries completed.
C2_PayloadAfterJoinOrderFree ==
  response.status = 200
    => /\ \A q \in Queries : qstate[q] = "fulfilled"
       /\ response.body.data = PayloadOfStore

C2_Witness ==
  /\ response.status = 200
  /\ Len(listings) = MaxListings
  /\ Len(mortgages) = MaxMortgages
  /\ response.body.data.priceDistribution.values # <<0, 0, 0, 0, 0>>

\* C14: with no active listing in the store the two averages of the payload
\* are NaN, the result of dividing by a length of zero, not 0, and the request
\* is answered 200 unless a query failed.
C14_EmptyPopulationAveragesNaN ==
  CountActive(listings) = 0 =>
    /\ (pc = "done" /\ \A q \in Queries : qstate[q] # "rejected") => response.status = 200
    /\ response.status = 200 =>
         /\ response.body.data.metrics.averageDaysOnMarket.isNaN
         /\ response.body.data.metrics.averageUpdateFrequency.isNaN
         /\ response.body.data.metrics.averageDaysOnMarket # Num(0)
         /\ response.body.data.metrics.averageUpdateFrequency # Num(0)

\* a store whose only listing is sold, answered 200
C14_Witness ==
  /\ response.status = 200
  /\ Len(listings) = 1
  /\ CountActive(listings) = 0
  /\ response.body.data.metrics.averageDaysOnMarket = NaN
  /\ response.body.data.listingLifecycle.statusDistribution.values = <<1>>

(***************************************************************************)
(* Price distribution (specification SpecPrice).                           *)
(***************************************************************************)
Sent200 == response.status = 200

Payload == response.body.data

\* the k-th of the ranges [0,250k), [250k,500k), [500k,750k), [750k,1M), [1M,inf)
InPriceRange(p, k) ==
  CASE k = 1 -> 0 <= p /\ p < 250000
    [] k = 2 -> 250000 <= p /\ p < 500000
    [] k = 3 -> 500000 <= p /\ p < 750000
    [] k = 4 -> 750000 <= p /\ p < 1000000
    [] k = 5 -> 1000000 <= p

ActivePrices ==
  LET act == SelectSeq(listings, IsActive)
  IN [i \in DOMAIN act |-> act[i].price]

\* C3: the price distribution reports, under the five labels in their fixed
\* order, for each range [lo, hi) the number of active listings priced in it,
\* so that every active listing with a price >= 0 is counted exactly once;
\* prices 100000, 300000, 1200000 give [1,1,0,0,1].
C3_PriceDistribution ==
  Sent200 =>
    LET pd == Payload.priceDistribution
    IN /\ pd.labels = <<"0-250k", "250k-500k", "500k-750k", "750k-1M", "1M+">>
       /\ \A k \in 1..5 :
            pd.values[k] =
              Cardinality({i \in DOMAIN ActivePrices : InPriceRange(ActivePrices[i], k)})
       /\ SumSeq(pd.values) =
            Cardinality({i \in DOMAIN ActivePrices : ActivePrices[i] >= 0})
       /\ ActivePrices = <<100000, 300000, 1200000>> => pd.values = <<1, 1, 0, 0, 1>>

C3_Witness ==
  /\ Sent200
  /\ ActivePrices = <<100000, 300000, 1200000>>
  /\ Payload.priceDistribution.values = <<1, 1, 0, 0, 1>>

(***************************************************************************)
(* Days on market (specification SpecDays).                                *)
(***************************************************************************)
AveragesComputed == pc = "await2"

ActiveRows == FindActiveListings(listings)

\* C4: no per-listing days-on-market value is negative, whatever createdAt,
\* lastStatusChange and now are.
C4_DaysOnMarketNonNegative ==
  AveragesComputed =>
    /\ Len(daysOnMarketList) = Len(ActiveRows)
    /\ \A i \in DOMAIN daysOnMarketList : daysOnMarketList[i] >= 0

\* a listing created after now whose status change precedes its creation
C4_Witness ==
  /\ AveragesComputed
  /\ \E i \in DOMAIN ActiveRows :
       /\ ActiveRows[i].createdAt > now
       /\ ActiveRows[i].lastStatusChange # Null
       /\ ActiveRows[i].lastStatusChange[1] < ActiveRows[i].createdAt
       /\ daysOnMarketList[i] = 0

\* C5 as stated: the duration runs from createdAt to the later of
\* lastStatusChange and now, clamped to zero, with now substituted when
\* lastStatusChange precedes createdAt.
C5_LaterOfStatusChangeAndNow ==
  AveragesComputed =>
    \A i \in DOMAIN ActiveRows :
      LET l == ActiveRows[i]
          end == IF l.lastStatusChange = Null \/ l.lastStatusChange[1] < l.createdAt
                 THEN now ELSE Max(l.lastStatusChange[1], now)
      IN daysOnMarketList[i] = Max(0, WholeDays(l.createdAt, end))

\* C5 amended: the duration runs from createdAt to lastStatusChange when that
\* is present and not before createdAt (also when it lies before now), and to
\* now otherwise; in whole days, clamped to zero.
C5_UpToStatusChange ==
  AveragesComputed =>
    /\ Len(daysOnMarketList) = Len(ActiveRows)
    /\ \A i \in DOMAIN ActiveRows :
         LET l == ActiveRows[i]
             end == IF l.lastStatusChange # Null /\ l.lastStatusChange[1] >= l.createdAt
                    THEN l.lastStatusChange[1] ELSE now
         IN daysOnMarketList[i] = Max(0, WholeDays(l.createdAt, end))

\* a listing whose status change lies between its creation and now, measured
\* up to the status change and not up to now
C5_Witness ==
  /\ AveragesComputed
  /\ \E i \in DOMAIN ActiveRows :
       LET l == ActiveRows[i]
       IN /\ l.lastStatusChange # Null
          /\ l.createdAt <= l.lastStatusChange[1]
          /\ l.lastStatusChange[1] < now
          /\ daysOnMarketList[i] = WholeDays(l.createdAt, l.lastStatusChange[1])
          /\ daysOnMarketList[i] < WholeDays(l.createdAt, now)

(***************************************************************************)
(* Listing lifecycle (specification SpecLifecycle).                        *)
(***************************************************************************)
\* the k-th of: f >= 1, 0.25 <= f < 1, 0.033 <= f < 0.25, f < 0.033
InFrequencyBand(f, k) ==
  CASE k = 1 -> f.num >= f.den
    [] k = 2 -> 4 * f.num >= f.den /\ f.num < f.den
    [] k = 3 -> 1000 * f.num >= 33 * f.den /\ 4 * f.num < f.den
    [] k = 4 -> 1000 * f.num < 33 * f.den

FrequencyOfRow(i) == updateFrequencyOf(ActiveRows[i], now)

\* the examples of the claim: frequency and the position of its label
FrequencyExamples ==
  { <<Ratio(1, 1), 1>>, <<Ratio(1, 2), 2>>, <<Ratio(1, 4), 2>>, <<Ratio(1, 5), 3>>,
    <<Ratio(33, 1000), 3>>, <<Ratio(1, 100), 4>> }

\* C6: the update-frequency chart counts each active listing under exactly
\* one of Daily (f >= 1), Weekly (f >= 0.25), Monthly (f >= 0.033), Quarterly
\* (otherwise), thresholds taken highest first and inclusive; 1.0 is Daily,
\* 0.5 and 0.25 Weekly, 0.2 and 0.033 Monthly, 0.01 Quarterly.
C6_UpdateFrequencyBuckets ==
  Sent200 =>
    LET uf == Payload.listingLifecycle.updateFrequency
    IN /\ uf.labels = <<"Daily", "Weekly", "Monthly", "Quarterly">>
       /\ \A k \in 1..4 :
            uf.values[k] =
              Cardinality({i \in DOMAIN ActiveRows : InFrequencyBand(FrequencyOfRow(i), k)})
       /\ SumSeq(uf.values) = Len(ActiveRows)
       /\ \A e \in FrequencyExamples :
            uf.values[e[2]] >=
              Cardinality({i \in DOMAIN ActiveRows : FrequencyOfRow(i) = e[1]})

\* a listing updated 33 days ago and created 1000 days ago: 0.033, Monthly
C6_Witness ==
  /\ Sent200
  /\ \E i \in DOMAIN ActiveRows : FrequencyOfRow(i) = Ratio(33, 1000)
  /\ Payload.listingLifecycle.updateFrequency.values[3] >= 1

\* the k-th of [0,30], (30,60], (60,90], (90,inf)
InDaysBand(d, k) ==
  CASE k = 1 -> d <= 30
    [] k = 2 -> 30 < d /\ d <= 60
    [] k = 3 -> 60 < d /\ d <= 90
    [] k = 4 -> 90 < d

\* whole days from creation to the most recent status change, or to now when
\* there has been none
DaysToStatusChange(l) ==
  WholeDays(l.createdAt,
            IF l.lastStatusChange = Null THEN now ELSE l.lastStatusChange[1])

\* C8 as stated: daysOnMarketByType counts each active listing in the band
\* that holds its days on market, measured from creation to the most recent
\* status change, or to now when there has been none.
C8_DaysOnMarketByStatusChange ==
  Sent200 =>
    \A k \in 1..4 :
      Payload.listingLifecycle.daysOnMarketByType.values[k] =
        Cardinality({i \in DOMAIN ActiveRows :
                       InDaysBand(DaysToStatusChange(ActiveRows[i]), k)})

(***************************************************************************)
(* Mortgage analytics (specification SpecMortgage).                        *)
(***************************************************************************)
HoursOfYears(n) == n * DaysPerYear * HoursPerDay

\* the k-th of [0,5], (5,10], (10,15], (15,20], (20,inf) years, on an age in hours
InAgeBand(a, k) ==
  CASE k = 1 -> 0 <= a /\ a <= HoursOfYears(5)
    [] k = 2 -> HoursOfYears(5) < a /\ a <= HoursOfYears(10)
    [] k = 3 -> HoursOfYears(10) < a /\ a <= HoursOfYears(15)
    [] k = 4 -> HoursOfYears(15) < a /\ a <= HoursOfYears(20)
    [] k = 5 -> HoursOfYears(20) < a

\* the k-th of [0,100k], (100k,250k], (250k,500k], (500k,inf)
InBalanceBand(b, k) ==
  CASE k = 1 -> 0 <= b /\ b <= 100000
    [] k = 2 -> 100000 < b /\ b <= 250000
    [] k = 3 -> 250000 < b /\ b <= 500000
    [] k = 4 -> 500000 < b

\* the k-th of [0,3], (3,4], (4,5], (5,6], (6,inf) percent
InRateBand(r, k) ==
  CASE k = 1 -> 0 <= r.num /\ r.num <= 3 * r.den
    [] k = 2 -> 3 * r.den < r.num /\ r.num <= 4 * r.den
    [] k = 3 -> 4 * r.den < r.num /\ r.num <= 5 * r.den
    [] k = 4 -> 5 * r.den < r.num /\ r.num <= 6 * r.den
    [] k = 5 -> 6 * r.den < r.num

\* C7: for non-negative inputs each mortgage chart counts every mortgage under
\* exactly one label, the one whose range, upper bound inclusive, holds the
\* input: age in years, balance and interest rate.
C7_MortgageBuckets ==
  Sent200 =>
    LET ma == Payload.mortgageAnalytics
        M == DOMAIN mortgages
    IN /\ (\A i \in M : mortgages[i].createdAt <= now) =>
            /\ \A k \in 1..5 :
                 ma.ageDistribution.values[k] =
                   Cardinality({i \in M : InAgeBand(now - mortgages[i].createdAt, k)})
            /\ SumSeq(ma.ageDistribution.values) = Len(mortgages)
       /\ (\A i \in M : mortgages[i].currentBalance >= 0) =>
            /\ \A k \in 1..4 :
                 ma.balanceDistribution.values[k] =
                   Cardinality({i \in M : InBalanceBand(mortgages[i].currentBalance, k)})
            /\ SumSeq(ma.balanceDistribution.values) = Len(mortgages)
       /\ (\A i \in M : mortgages[i].interestRate.num >= 0) =>
            /\ \A k \in 1..5 :
                 ma.interestRateDistribution.values[k] =
                   Cardinality({i \in M : InRateBand(mortgages[i].interestRate, k)})
            /\ SumSeq(ma.interestRateDistribution.values) = Len(mortgages)

\* a balance of exactly 250000 and an age of exactly five years
C7_Witness ==
  /\ Sent200
  /\ \E i, j \in DOMAIN mortgages :
       /\ mortgages[i].currentBalance = 250000
       /\ now - mortgages[j].createdAt = HoursOfYears(5)
  /\ Payload.mortgageAnalytics.balanceDistribution.values = <<1, 1, 0, 0>>
  /\ Payload.mortgageAnalytics.ageDistribution.values = <<2, 0, 0, 0, 0>>

(***************************************************************************)
(* Listing trends (specification SpecSeries).                              *)
(***************************************************************************)
\* day number of the Sunday that starts the calendar week of instant t, in the
\* zone with offset z
SundayOf(t, z) == LocalDayNumber(t, z) - getDay(t, z)

\* the listings the weekly query covers
WeeklyWindow == {i \in DOMAIN listings : listings[i].createdAt >= DaysAgo(now, WeeklyWindowDays)}

\* the week of the listing is the same by the server's calendar and by UTC
WeekUnambiguous(i) == SundayOf(listings[i].createdAt, tz) = SundayOf(listings[i].createdAt, 0)

\* C9 as stated: listings created in the same Sunday-to-Saturday week, at any
\* time of day and under any zone offset of the server, are summed into one
\* weekly entry whose key is the ISO date of the Sunday starting that week.
C9_WeeklyKeyIsSunday ==
  (Sent200 /\ \A i \in WeeklyWindow : WeekUnambiguous(i)) =>
    LET weekly == Payload.listingTrends.weekly
    IN \A i \in WeeklyWindow :
         \E k \in DOMAIN weekly.dates :
           /\ weekly.dates[k] = toISODate(SundayOf(listings[i].createdAt, tz) * HoursPerDay)
           /\ weekly.values[k] =
                Cardinality({j \in WeeklyWindow :
                               SundayOf(listings[j].createdAt, tz)
                                 = SundayOf(listings[i].createdAt, tz)})

\* the rows of data that processTimeSeries maps to key, and their counts summed
RowsOfKey(data, interval, key) ==
  {i \in DOMAIN data : timeSeriesKey(data[i].createdAt, interval, tz) = key}

CountOfKey(data, interval, key) ==
  SumSeq([i \in DOMAIN data |->
            IF i \in RowsOfKey(data, interval, key) THEN data[i]._count ELSE 0])

SeriesOfRows(series, data, interval) ==
  /\ Len(series.dates) = Len(series.values)
  /\ DOMAIN series.dates = 1..Len(series.dates)
  /\ \A k \in 1..(Len(series.dates) - 1) :
       localeCompare(series.dates[k], series.dates[k + 1]) < 0
  /\ \A k \in DOMAIN series.dates :
       /\ RowsOfKey(data, interval, series.dates[k]) # {}
       /\ series.values[k] = CountOfKey(data, interval, series.dates[k])
       /\ series.values[k] > 0
  /\ \A i \in DOMAIN data :
       \E k \in DOMAIN series.dates :
         series.dates[k] = timeSeriesKey(data[i].createdAt, interval, tz)
  /\ data = <<>> => (series.dates = <<>> /\ series.values = <<>>)

\* C10: each series of the payload has as many dates as values, its dates
\* strictly ascending without a repeated key, an entry only for a key that
\* some row maps to, each value the sum of the counts of the rows mapped to
\* its key, and no entry at all for an empty input.
C10_SeriesShape ==
  Sent200 =>
    /\ SeriesOfRows(Payload.listingTrends.weekly, qresult["weekly"], "weekly")
    /\ SeriesOfRows(Payload.listingTrends.monthly, qresult["monthly"], "monthly")

\* two rows created at different instants summed into one weekly entry, and
\* two monthly entries with the months between them absent
C10_Witness ==
  /\ Sent200
  /\ Len(qresult["weekly"]) = 2
  /\ Payload.listingTrends.weekly.values = <<2>>
  /\ Len(qresult["monthly"]) = 2

\* the month that holds instant t by the server's calendar, counted in months
MonthOrdinal(t, z) ==
  LET c == CivilFromDays(LocalDayNumber(t, z))
  IN 12 * c.year + (c.month - 1)

IsDigit(c) == 48 <= c /\ c <= 57

\* the year and the month that a key of the form YYYY-MM reads as
YearOfKey(key) ==
  1000 * (key[1] - 48) + 100 * (key[2] - 48) + 10 * (key[3] - 48) + (key[4] - 48)

MonthOfKey(key) == 10 * (key[6] - 48) + (key[7] - 48)

IsMonthlyKey(key) ==
  /\ Len(key) = 7
  /\ key[5] = 45
  /\ \A p \in {1, 2, 3, 4, 6, 7} : IsDigit(key[p])
  /\ MonthOfKey(key) \in 1..12

OrdinalOfKey(key) == 12 * YearOfKey(key) + (MonthOfKey(key) - 1)

\* C11: every monthly entry is keyed by the zero-padded YYYY-MM of a month in
\* which some row of the window was created, every such month has its entry,
\* and the entries are returned in the chronological order of their months,
\* also across a year boundary.
C11_MonthlyKeysChronological ==
  Sent200 =>
    LET monthly == Payload.listingTrends.monthly
        data == qresult["monthly"]
    IN /\ \A k \in DOMAIN monthly.dates :
            /\ IsMonthlyKey(monthly.dates[k])
            /\ \E i \in DOMAIN data :
                 MonthOrdinal(data[i].createdAt, tz) = OrdinalOfKey(monthly.dates[k])
       /\ \A i \in DOMAIN data :
            \E k \in DOMAIN monthly.dates :
              /\ IsMonthlyKey(monthly.dates[k])
              /\ OrdinalOfKey(monthly.dates[k]) = MonthOrdinal(data[i].createdAt, tz)
       /\ \A k \in 1..(Len(monthly.dates) - 1) :
            /\ IsMonthlyKey(monthly.dates[k])
            /\ IsMonthlyKey(monthly.dates[k + 1])
            /\ OrdinalOfKey(monthly.dates[k]) < OrdinalOfKey(monthly.dates[k + 1])

\* June 2023 and December 2023, or December 2023 and January 2024, in that order
C11_Witness ==
  /\ Sent200
  /\ LET dates == Payload.listingTrends.monthly.dates
     IN /\ Len(dates) = 2
        /\ IsMonthlyKey(dates[1])
        /\ IsMonthlyKey(dates[2])
        /\ YearOfKey(dates[1]) = 2023
        /\ MonthOfKey(dates[1]) = 12
        /\ YearOfKey(dates[2]) = 2024
        /\ MonthOfKey(dates[2]) = 1

(***************************************************************************)
(* The bucketed charts (specification SpecCharts).                         *)
(***************************************************************************)
AllZero(values) == \A k \in DOMAIN values : values[k] = 0

\* the chart carries exactly the labels of fixed, in their order, and one
\* count for each
FullChart(chart, fixed) ==
  /\ chart.labels = fixed
  /\ DOMAIN chart.values = DOMAIN fixed
  /\ \A k \in DOMAIN chart.values : chart.values[k] \in Nat

\* C12: the three mortgage charts and the days-on-market and update-frequency
\* charts carry their full label set in the declared order, a count of zero
\* included, for every population; with no mortgage at all the three mortgage
\* charts are all zero and the request is answered 200.
C12_FullFixedLabels ==
  /\ pc = "done" => Sent200
  /\ Sent200 =>
       LET ma == Payload.mortgageAnalytics
           ll == Payload.listingLifecycle
       IN /\ FullChart(ma.ageDistribution,
                       <<"0-5 years", "5-10 years", "10-15 years", "15-20 years",
                         "20+ years">>)
          /\ FullChart(ma.balanceDistribution,
                       <<"0-100k", "100k-250k", "250k-500k", "500k+">>)
          /\ FullChart(ma.interestRateDistribution,
                       <<"0-3%", "3-4%", "4-5%", "5-6%", "6%+">>)
          /\ FullChart(ll.daysOnMarketByType,
                       <<"0-30 days", "30-60 days", "60-90 days", "90+ days">>)
          /\ FullChart(ll.updateFrequency, <<"Daily", "Weekly", "Monthly", "Quarterly">>)
          /\ mortgages = <<>> =>
               /\ AllZero(ma.ageDistribution.values)
               /\ AllZero(ma.balanceDistribution.values)
               /\ AllZero(ma.interestRateDistribution.values)

\* a store without mortgages and with one active listing, answered 200
C12_Witness ==
  /\ Sent200
  /\ mortgages = <<>>
  /\ Len(ActiveRows) = 1
  /\ Payload.mortgageAnalytics.balanceDistribution.values = <<0, 0, 0, 0>>
  /\ Payload.listingLifecycle.daysOnMarketByType.values = <<0, 0, 0, 1>>

(***************************************************************************)
(* Assumable loan types (specification SpecLoans).                         *)
(***************************************************************************)
\* the active listings that carry a loan-type label, and the labels they carry
TypedActive ==
  {i \in DOMAIN listings :
     IsActive(listings[i]) /\ listings[i].denormalizedAssumableLoanType # Null}

StoredLabels == {listings[i].denormalizedAssumableLoanType[1] : i \in TypedActive}

LabelCount(t) ==
  Cardinality({i \in TypedActive : listings[i].denormalizedAssumableLoanType[1] = t})

\* the chart reports a choice of at most three groups, largest first, none
\* smaller than a group left out, each shown under Shown(its stored label)
TopGroups(chart, Shown(_)) ==
  /\ Len(chart.labels) = Len(chart.values)
  /\ Len(chart.labels) <= 3
  /\ Len(chart.labels) = IF Cardinality(StoredLabels) < 3
                         THEN Cardinality(StoredLabels) ELSE 3
  /\ \A k \in 1..(Len(chart.values) - 1) : chart.values[k] >= chart.values[k + 1]
  /\ \E g \in [DOMAIN chart.labels -> StoredLabels] :
       /\ \A j, k \in DOMAIN g : j # k => g[j] # g[k]
       /\ \A k \in DOMAIN g :
            /\ chart.values[k] = LabelCount(g[k])
            /\ chart.labels[k] = Shown(g[k])
       /\ \A t \in StoredLabels \ Range(g) :
            \A k \in DOMAIN g : LabelCount(t) <= chart.values[k]

ShownAsStored(t) == t

ShownOrUnknown(t) == IF t = "" THEN "Unknown" ELSE t

\* C13 as stated: assumableListings has at most 3 entries in non-increasing
\* order of value, each the count of the active listings sharing one non-null
\* label, no group left out being larger than one reported, and each label is
\* the stored label of its group ('Unknown' standing in only for null).
C13_TopLoanTypesStoredLabel ==
  Sent200 => TopGroups(Payload.assumableListings, ShownAsStored)

\* C13 amended: as stated, except that 'Unknown' is reported for a group
\* whose stored label is null or the empty string.
C13_TopLoanTypes ==
  Sent200 => TopGroups(Payload.assumableListings, ShownOrUnknown)

\* four groups of which the one stored last, labelled with the empty string,
\* is the largest, and one is left out
C13_Witness ==
  /\ Sent200
  /\ Cardinality(StoredLabels) = 4
  /\ LabelCount("") = 2
  /\ Payload.assumableListings.labels[1] = "Unknown"
  /\ Payload.assumableListings.values = <<2, 1, 1>>

(***************************************************************************)
(* The listings route (specification SpecListings).                        *)
(***************************************************************************)
Returned(method) == lpc = "done" /\ lreq.route = ListingsPath /\ lreq.method = method

\* the request carries no id parameter, or an empty one
IdMissing == lreq.id = Null \/ lreq.id = Some("")

\* C15: DELETE /listings without an id, absent or empty, is answered 400 with
\* { error: 'ID is required' }, the service's delete is not called and the
\* listing table is as it was when the request came in.
C15_DeleteWithoutId400 ==
  (Returned("DELETE") /\ IdMissing) =>
    /\ lresponse = [status |-> 400, body |-> [error |-> "ID is required"]]
    /\ lcalls = <<>>
    /\ listings = lbefore

\* DELETE with an empty id against a table that holds a listing
C15_Witness ==
  /\ Returned("DELETE")
  /\ lreq.id = Some("")
  /\ lresponse.status = 400
  /\ listings # <<>>

\* the body could not be parsed, or the service call threw
RequestFailed ==
  \/ lreq.method \in {"POST", "PUT"} /\ lreq.body = Null
  \/ lcalls # <<>> /\ lcalls[1].state = "rejected"

\* C16: in GET, POST, PUT and DELETE of /listings every failure, a body that
\* is not JSON and an error of the service included, is answered 500; 400 is
\* sent only for DELETE without an id; on success POST answers 201 and GET,
\* PUT and DELETE answer 200.
C16_ListingsStatusCodes ==
  (lpc = "done" /\ lreq.route = ListingsPath) =>
    /\ lresponse.status \in {200, 201, 400, 500}
    /\ RequestFailed => lresponse.status = 500
    /\ lresponse.status = 400 <=> (lreq.method = "DELETE" /\ IdMissing)
    /\ (~RequestFailed /\ ~(lreq.method = "DELETE" /\ IdMissing)) =>
         /\ lresponse.status = IF lreq.method = "POST" THEN 201 ELSE 200
         /\ lcalls # <<>>
         /\ lcalls[1].state = "fulfilled"

\* PUT with a body that is not JSON, answered 500 without a service call
C16_Witness ==
  /\ Returned("PUT")
  /\ lreq.body = Null
  /\ lcalls = <<>>
  /\ lresponse = [status |-> 500, body |-> [error |-> "Failed to update listing"]]

\* the one read that GET makes, by which of id and query Has(_) holds of
ReadChosen(Has(_)) ==
  /\ Len(lcalls) = 1
  /\ IF Has(lreq.id) THEN lcalls[1].op = "findById" /\ lcalls[1].arg = lreq.id[1]
     ELSE IF Has(lreq.query) THEN lcalls[1].op = "search" /\ lcalls[1].arg = lreq.query[1]
     ELSE lcalls[1].op = "findAll"

Supplied(param) == param # Null

SuppliedNonEmpty(param) == param # Null /\ param # Some("")

\* C17 as stated: GET /listings makes exactly one service read: findById when
\* id is supplied (query supplied or not), else search when query is
\* supplied, else findAll.
C17_OneReadBySuppliedParam ==
  Returned("GET") => ReadChosen(Supplied)

\* C17 amended: the same with 'supplied' read as 'supplied and not empty': an
\* empty id is passed over for query, an empty query for findAll.
C17_OneReadByNonEmptyParam ==
  Returned("GET") => ReadChosen(SuppliedNonEmpty)

\* id and query both supplied: findById; an empty id with a query: search
C17_Witness ==
  /\ Returned("GET")
  /\ lreq.query = Some("oak")
  /\ \/ lreq.id = Some("1") /\ lcalls[1].op = "findById"
     \/ lreq.id = Some("") /\ lcalls[1].op = "search"
  /\ lcalls[1].state = "fulfilled"

(***************************************************************************)
(* Status distribution (specification SpecStatus).                         *)
(***************************************************************************)
\* C18: statusDistribution has one entry for each status that occurs among
\* all listings of the store, active or not, labels and values aligned, each
\* value the number of listings with that status; the values sum to the
\* number of listings in the store.
C18_StatusDistributionOverAll ==
  Sent200 =>
    LET sd == Payload.listingLifecycle.statusDistribution
    IN /\ DOMAIN sd.labels = DOMAIN sd.values
       /\ Range(sd.labels) = {listings[i].status : i \in DOMAIN listings}
       /\ Len(sd.labels) = Cardinality(Range(sd.labels))
       /\ \A k \in DOMAIN sd.labels :
            sd.values[k] =
              Cardinality({i \in DOMAIN listings : listings[i].status = sd.labels[k]})
       /\ SumSeq(sd.values) = Len(listings)

\* a store of four listings of which one is active
C18_Witness ==
  /\ Sent200
  /\ Len(listings) = 4
  /\ Payload.totalListings = 1
  /\ Len(Payload.listingLifecycle.statusDistribution.labels) = 3
  /\ SumSeq(Payload.listingLifecycle.statusDistribution.values) = 4

(***************************************************************************)
(* Successive requests (specification SpecSessions).                       *)
(***************************************************************************)
\* the request before was answered 200
LastSent200 == last # NoRequest /\ last.response.status = 200

SameStoreAsLast ==
  last.listings = listings /\ last.mortgages = mortgages /\ last.now = now

\* C19: the handler keeps nothing between invocations: the payload of a
\* request is the one the store holds at that request, so two requests on the
\* same store at the same now get identical payloads, and a request after a
\* change of the store gets the payload of the changed store.
C19_NoStateBetweenRequests ==
  Sent200 =>
    /\ Payload = PayloadOfStore
    /\ (LastSent200 /\ SameStoreAsLast) => response.body = last.response.body
    /\ (LastSent200 /\ ~SameStoreAsLast) =>
         Payload.listingLifecycle.statusDistribution.values
           = [i \in DOMAIN GroupByStatus(listings) |-> GroupByStatus(listings)[i]._count]

\* a second request, after a listing was marked sold, with another payload
C19_Witness ==
  /\ Sent200
  /\ LastSent200
  /\ last.listings # listings
  /\ Len(last.listings) = Len(listings)
  /\ Payload.totalListings < last.response.body.data.totalListings

(***************************************************************************)
(* The reading routes (specification SpecReads).                           *)
(***************************************************************************)
\* C20: no step of GET /dashboard or of GET /listings/recent, in a request
\* that succeeds or in one that fails, changes the listing table or the
\* mortgage table.
C20_ReadsLeaveStoreUnchanged ==
  [][listings' = listings /\ mortgages' = mortgages]_vars

\* a dashboard request that failed and a recent request that returned the
\* rows of the table, newest first
C20_Witness ==
  /\ pc = "done"
  /\ response.status = 500
  /\ lpc = "done"
  /\ lreq.route = RecentPath
  /\ lresponse.status = 200
  /\ Len(lresponse.body.json) = Len(listings)
  /\ Len(listings) > 1
  /\ lresponse.body.json[1].id = listings[1].id

(***************************************************************************)
(* Failure inside one request (specification Spec).                        *)
(***************************************************************************)
Issued(q) == qstate[q] # "idle"
Failed == \E q \in Queries : qstate[q] = "rejected"

\* C21: in every step of one GET /dashboard request a query is sent only if
\* it was never sent before in the request; once a query has failed no
\* query that was not sent yet is sent, the handler can take the step that
\* sends the 500 response and ends the request, and it takes no other.
C21_NoRetryFailFast ==
  [][pc # "done" =>
       /\ \A q \in Queries :
            (qstate'[q] = "pending" /\ qstate[q] # "pending") => ~Issued(q)
       /\ Failed =>
            /\ ENABLED Catch
            /\ \A q \in Queries : ~Issued(q) => qstate'[q] = "idle"
            /\ pc' # pc => (pc' = "done" /\ response'.status = 500)]_vars

\* the loan-type grouping failed: the request ended with 500 and the eight
\* queries of the steps after it were never sent
C21_Witness ==
  /\ pc = "done"
  /\ response # NoResponse
  /\ response.status = 500
  /\ qstate["loanDistribution"] = "rejected"
  /\ \A q \in Step1 : qstate[q] = "fulfilled"
  /\ \A q \in Step3 \cup Step4 : ~Issued(q)

(***************************************************************************)
(* The order of the queries (specification Spec).                          *)
(***************************************************************************)
\* the four groups of queries, in the order of their awaits
Steps == <<Step1, Step2, Step3, Step4>>

\* C30: a query of a step has been sent only if every query of the step
\* before has been fulfilled, and the queries of one step are sent together:
\* if one of them has been sent, all of them have.
C30_FourSequentialSteps ==
  \A k \in DOMAIN Steps :
    (\E q \in Steps[k] : Issued(q)) =>
      /\ \A q \in Steps[k] : Issued(q)
      /\ k > 1 => AllFulfilled(Steps[k - 1])

\* the last step is in flight: its seven queries were sent together, one has
\* been answered, and the seven of the steps before are all fulfilled
C30_Witness ==
  /\ pc = "await4"
  /\ qstate["price1"] = "fulfilled"
  /\ \A q \in Step4 \ {"price1"} : qstate[q] = "pending"
  /\ AllFulfilled(Step1 \cup Step2 \cup Step3)

(***************************************************************************)
(* The shape of the payload (specification Spec).                          *)
(***************************************************************************)
\* a ChartData: labels and values, one value for each label
IsChartData(chart) ==
  /\ DOMAIN chart = {"labels", "values"}
  /\ Len(chart.labels) = Len(chart.values)

\* a TimeSeriesData: dates and values
IsTimeSeriesData(series) == DOMAIN series = {"dates", "values"}

C26_EveryRowInOneBucket ==
  Sent200 =>
    LET ma == Payload.mortgageAnalytics
        ll == Payload.listingLifecycle
        fetchedMortgages == Len(qresult["assumableMortgages"])
        fetchedListings == Len(qresult["activeListings"])
    IN /\ SumSeq(ma.ageDistribution.values) = fetchedMortgages
       /\ SumSeq(ma.balanceDistribution.values) = fetchedMortgages
       /\ SumSeq(ma.interestRateDistribution.values) = fetchedMortgages
       /\ SumSeq(ll.daysOnMarketByType.values) = fetchedListings
       /\ SumSeq(ll.updateFrequency.values) = fetchedListings

\* a mortgage created after now next to one with a negative balance: both
\* are counted, in the first bucket of the age and of the balance chart
C26_Witness ==
  /\ Sent200
  /\ Len(mortgages) = 2
  /\ mortgages[1].createdAt > now
  /\ mortgages[2].currentBalance < 0
  /\ Payload.mortgageAnalytics.ageDistribution.values[1] = 2
  /\ Payload.mortgageAnalytics.balanceDistribution.values[1] = 2

\* an active listing created after now, counted under '0-30 days'
C26_WitnessListing ==
  /\ Sent200
  /\ Len(listings) = 1
  /\ listings[1].createdAt > now
  /\ Payload.listingLifecycle.daysOnMarketByType.values[1] = 1

(***************************************************************************)
(* The update frequencies (specification SpecFrequency).                   *)
(***************************************************************************)
\* every active listing was created no later than it was updated, and
\* updated no later than now
UpdatedInOrder ==
  \A i \in DOMAIN listings :
    IsActive(listings[i]) =>
      listings[i].createdAt <= listings[i].updatedAt /\ listings[i].updatedAt <= now

IsUnitFraction(f) == 0 <= f.num /\ f.num <= f.den

\* C27: when there is an active listing and every active listing has
\* createdAt <= updatedAt <= now, each update frequency computed is at least
\* 0 and at most 1, and the rounded average is 0 or 1.
C27_FrequencyInUnitInterval ==
  (pc = "await2" /\ CountActive(listings) > 0 /\ UpdatedInOrder) =>
    /\ Len(updateFrequencies) = CountActive(listings)
    /\ \A i \in DOMAIN updateFrequencies : IsUnitFraction(updateFrequencies[i])
    /\ averageUpdateFrequency \in {Num(0), Num(1)}

\* frequencies 1/4 and 1, with the mean 5/8 reported as 1
C27_Witness ==
  /\ pc = "await2"
  /\ UpdatedInOrder
  /\ updateFrequencies = <<Ratio(1, 4), Ratio(1, 1)>>
  /\ averageUpdateFrequency = Num(1)

\* frequencies 0 and 1/4, with the mean 1/8 reported as 0
C27_WitnessZero ==
  /\ pc = "await2"
  /\ UpdatedInOrder
  /\ updateFrequencies = <<Ratio(0, 1), Ratio(1, 4)>>
  /\ averageUpdateFrequency = Num(0)

\* outside the precondition, a listing updated before it was created has a
\* frequency above 1 and an average of 4
C27_OutOfOrderAbove ==
  /\ pc = "await2"
  /\ ~UpdatedInOrder
  /\ averageUpdateFrequency = Num(4)

(***************************************************************************)
(* GET /api/listings/recent (specification SpecRecent).                    *)
(***************************************************************************)
RecentReturned == lpc = "done" /\ lreq.route = RecentPath

\* the rows of the table that are not in the result
OutsideOf(result) ==
  {i \in DOMAIN listings : \A j \in DOMAIN result : result[j].id # listings[i].id}

\* C23: the response of GET /listings/recent is 200 or 500.  With 200 the
\* body holds the rows of the table, each at most once, 10 at most and all
\* of them when the table has no more than 10, in descending order of
\* createdAt, and no row left out was created later than a row returned.  A
\* failure of the query gives 500 with an error body.
C23_RecentNewestTen ==
  RecentReturned =>
    /\ lresponse.status \in {200, 500}
    /\ (lcalls[1].state = "rejected") <=> (lresponse.status = 500)
    /\ lresponse.status = 500 => DOMAIN lresponse.body = {"error"}
    /\ lresponse.status = 200 =>
         LET result == lresponse.body.json
         IN /\ Len(result) <= 10
            /\ Len(result) = IF Len(listings) < 10 THEN Len(listings) ELSE 10
            /\ \A j \in DOMAIN result :
                 \E i \in DOMAIN listings :
                   /\ listings[i].id = result[j].id
                   /\ listings[i].createdAt = result[j].createdAt
            /\ \A j, k \in DOMAIN result : j # k => result[j].id # result[k].id
            /\ \A j \in 1..(Len(result) - 1) :
                 result[j].createdAt >= result[j + 1].createdAt
            /\ \A i \in OutsideOf(result) : \A j \in DOMAIN result :
                 listings[i].createdAt <= result[j].createdAt

\* twelve rows stored out of order: ten returned, the two left out older
\* than the last returned
C23_Witness ==
  /\ RecentReturned
  /\ lresponse.status = 200
  /\ Len(listings) = 12
  /\ listings[1].createdAt < listings[2].createdAt
  /\ Len(lresponse.body.json) = 10
  /\ \A i \in OutsideOf(lresponse.body.json) :
       listings[i].createdAt < lresponse.body.json[10].createdAt

\* the query failed
C23_WitnessFailure ==
  /\ RecentReturned
  /\ lresponse.status = 500
  /\ Len(listings) = 12

(***************************************************************************)
(* A write next to a dashboard request (specification SpecSkew).           *)
(***************************************************************************)
\* no write has changed the store since the request began
Unmodified == ~modified

NonNegativePrices ==
  \A i \in DOMAIN listings : IsActive(listings[i]) => listings[i].price >= 0

\* C25: when no write has changed the store during the request and every
\* active listing has a price >= 0, the values of priceDistribution sum to
\* totalListings.
C25_PriceSumIsTotal ==
  (Sent200 /\ Unmodified /\ NonNegativePrices) =>
    SumSeq(Payload.priceDistribution.values) = Payload.totalListings

\* an undisturbed request over a sold and two active listings, two counted
\* in two ranges, after a request during which the second active listing was
\* created and whose payload had one listing and two in the ranges
C25_Witness ==
  /\ Sent200
  /\ Unmodified
  /\ NonNegativePrices
  /\ Len(listings) = 3
  /\ Payload.totalListings = 2
  /\ Payload.priceDistribution.values = <<1, 0, 1, 0, 0>>
  /\ last # NoRequest
  /\ last.listings = listings
  /\ last.response.status = 200
  /\ last.response.body.data.totalListings = 1
  /\ SumSeq(last.response.body.data.priceDistribution.values) = 2

\* a listing was created between the count of the active listings and the
\* counts by price: the ranges hold one listing more than totalListings
C25_SkewReached ==
  /\ Sent200
  /\ modified
  /\ NonNegativePrices
  /\ Payload.totalListings = 1
  /\ SumSeq(Payload.priceDistribution.values) = 2

\* the listings of every status created in the last days days
CreatedWithin(days) ==
  {i \in DOMAIN listings : listings[i].createdAt >= now - days * 24}

\* C28: when no write has changed the store during the request, the weekly
\* values sum to the number of listings of every status created in the last
\* 90 days, the monthly values to the number created in the last 365 days,
\* and the weekly sum is at most the monthly sum.
C28_TrendSums ==
  (Sent200 /\ Unmodified) =>
    LET weekly == SumSeq(Payload.listingTrends.weekly.values)
        monthly == SumSeq(Payload.listingTrends.monthly.values)
    IN /\ weekly = Cardinality(CreatedWithin(90))
       /\ monthly = Cardinality(CreatedWithin(365))
       /\ weekly <= monthly

\* a sold listing of last week, an active one of 100 days ago and one of 400
\* days ago: 1 in the weekly series, 2 in the monthly, 2 active listings
C28_Witness ==
  /\ Sent200
  /\ Unmodified
  /\ Len(listings) = 3
  /\ listings[1].status = "SOLD"
  /\ SumSeq(Payload.listingTrends.weekly.values) = 1
  /\ SumSeq(Payload.listingTrends.monthly.values) = 2
  /\ Payload.totalListings = 2

\* a listing deleted between the two time-series queries: more in the
\* weekly series than in the monthly
C28_SkewReached ==
  /\ Sent200
  /\ modified
  /\ SumSeq(Payload.listingTrends.weekly.values)
       > SumSeq(Payload.listingTrends.monthly.values)

\* C29: when no write has changed the store during the request,
\* totalNewListingsLast30Days is at most totalListings; averagePrice is 0
\* when the store has no active listing.
C29_RecentAtMostTotal ==
  (Sent200 /\ Unmodified) =>
    /\ Payload.metrics.totalNewListingsLast30Days <= Payload.totalListings
    /\ CountActive(listings) = 0 => Payload.metrics.averagePrice = Ratio(0, 1)

\* a store whose one listing is sold and a week old: no active listing, no
\* new listing, an average price of 0
C29_Witness ==
  /\ Sent200
  /\ Unmodified
  /\ Len(listings) = 1
  /\ listings[1].createdAt >= thirtyDaysAgo(now)
  /\ Payload.totalListings = 0
  /\ Payload.metrics.totalNewListingsLast30Days = 0
  /\ Payload.metrics.averagePrice = Ratio(0, 1)

\* one new listing out of several active ones
C29_WitnessNew ==
  /\ Sent200
  /\ Unmodified
  /\ Payload.metrics.totalNewListingsLast30Days = 1
  /\ Payload.totalListings = 3

\* the one active listing was sold between the two counts: one new listing
\* out of none
C29_SkewReached ==
  /\ Sent200
  /\ modified
  /\ Payload.metrics.totalNewListingsLast30Days > Payload.totalListings

(***************************************************************************)
(* The views of the dashboard page (specification SpecClient).             *)
(***************************************************************************)
View == DashboardClientView(useQuery)

C24_ChartsShown ==
  /\ Mounted
  /\ View = "Charts"
  /\ useQuery.data[1].data.totalListings = 3

\* the retry is in flight: still the spinner
C24_SpinnerOnRetry ==
  /\ Mounted
  /\ View = "Spinner"
  /\ useQuery.failureCount = 1
  /\ pc = "await4"

====
